---- MODULE Spec2Model ----
(***************************************************************************)
(* Model of the real-time messaging engine of Chat-App-Backend:            *)
(*   server/sockets/socketHandler.js   (connection and event handlers)     *)
(*   server/middleware/socketAuth.js   (admission)                         *)
(*   server/utils/crypto.js            (encrypt / decrypt)                 *)
(*   server/controllers/chatController.js (getConversations)               *)
(*   server/models/*.js                (schemas)                           *)
(*                                                                         *)
(* A string is modelled as the sequence of its '_'-separated parts, so     *)
(* that roomId.split('_') is the sequence itself; an id is a one-part      *)
(* string.  Every await of a handler is a suspension point: one action of  *)
(* the model is one store operation (executed atomically by MongoDB)       *)
(* followed by the handler's synchronous code up to its next await.        *)
(***************************************************************************)
EXTENDS Naturals, Integers, Sequences, FiniteSets, TLC

\* ------------------------------------------------------------------ bounds
NumSockets == 2
MaxTasks == 2
MaxConvs == 2
MaxMsgs == 2

\* --------------------------------------------------------------- universe
\* _id values of the User collection.
Users == {"u1", "u2", "u3"}

\* A well-formed ObjectId of no stored User.
GhostId == "ux"

\* A string that is no ObjectId (and holds no '_').
Junk == "zz"

\* _id of the n-th inserted Conversation / Message (ObjectIds are unique).
ConvIdOf == <<"c1", "c2", "c3", "c4", "c5", "c6">>
MsgIdOf ==
  <<"m1", "m2", "m3", "m4", "m5", "m6", "m7", "m8", "m9", "m10",
     "m11", "m12", "m13", "m14", "m15", "m16", "m17", "m18", "m19", "m20",
     "m21", "m22", "m23", "m24", "m25", "m26", "m27", "m28", "m29", "m30",
     "m31", "m32", "m33", "m34", "m35", "m36", "m37", "m38", "m39", "m40",
     "m41", "m42", "m43", "m44", "m45", "m46", "m47", "m48", "m49", "m50",
     "m51", "m52", "m53", "m54", "m55", "m56", "m57", "m58", "m59", "m60">>

ConvIds == {ConvIdOf[n] : n \in DOMAIN ConvIdOf}
MsgIds == {MsgIdOf[n] : n \in DOMAIN MsgIdOf}

Sockets == 1..NumSockets
Slots == 1..MaxTasks

RangeOf(f) == {f[i] : i \in DOMAIN f}

\* mongoose.Types.ObjectId.isValid on a string: one part, an ObjectId's text.
IsValidObjectId(str) ==
    /\ Len(str) = 1
    /\ str[1] \in Users \cup {GhostId} \cup ConvIds \cup MsgIds

\* user.username of the decoded token / the User document.
Username(u) == <<"name", u>>

\* ---------------------------------------------------------------- tokens
\* handshake.auth.token: absent, or a JWT whose payload names a user and
\* whose signature jwt.verify accepts or not.
NoToken == [present |-> FALSE, id |-> "", valid |-> FALSE]
GoodToken(u) == [present |-> TRUE, id |-> u, valid |-> TRUE]

\* The tokens clients present: none, a forged one that names u1, and the
\* users' own.
ClientTokens ==
    {NoToken, [GoodToken("u1") EXCEPT !.valid = FALSE]} \cup {GoodToken(u) : u \in Users}

\* A faulty variant: the payload is decoded without verifying the signature.
socketAuth_decodeOnly(token) ==
    IF ~token.present THEN [ok |-> FALSE, id |-> ""]
    ELSE [ok |-> TRUE, id |-> token.id]

\* socketAuth: next() with socket.data.user set, or next(Error).
socketAuth(token) ==
    IF ~token.present THEN [ok |-> FALSE, id |-> ""]
    ELSE IF token.valid THEN [ok |-> TRUE, id |-> token.id]
    ELSE [ok |-> FALSE, id |-> ""]

\* ------------------------------------------------------------------ state
VARIABLES
    online,     \* User.is_online, per user
    convs,      \* the Conversation collection, in insertion order
    msgs,       \* the Message collection, in insertion order
    socks,      \* per connection: admission phase, identity, joined channels
    tasks,      \* the event handlers in flight, in arrival order
    out,        \* what the last step emitted (socket events, responses)
    chatLog,    \* every chat_message emit so far, in order
    pushLog,    \* every sendEachForMulticast call so far, in order
    fcm_tokens, \* User.fcm_tokens, per user
    clock       \* the reading the next call of Date.now() gives

vars == <<online, convs, msgs, socks, tasks, out, chatLog, pushLog, fcm_tokens, clock>>

\* User.fcm_tokens after the devices of u2 and u3 registered through
\* POST /fcm-token.
RegisteredTokens ==
    [u \in Users |-> CASE u = "u2" -> <<"t2">>
                       [] u = "u3" -> <<"t3a", "t3b">>
                       [] OTHER -> <<>>]

\* user.fcm_tokens of the User document the push step reads.
FcmTokens(u) == IF u \in DOMAIN fcm_tokens THEN fcm_tokens[u] ELSE <<>>

\* A connection: token is handshake.auth.token, user is socket.data.user.id,
\* phase tells how far admission went ("ready": the listeners are
\* registered), pendingOn the un-awaited is_online write, disc how far the
\* disconnect handler went, rooms the channels the socket is in.
NoSock ==
    [phase |-> "new", token |-> NoToken, user |-> "", connected |-> FALSE,
     pendingOn |-> FALSE, disc |-> "none", rooms |-> {}]

\* The locals of a handler in flight; a handler uses the fields it needs.
Handler ==
    [kind |-> "", pc |-> "", sock |-> 0, room |-> <<>>, other |-> "",
     msg |-> "", content |-> <<>>, type |-> "", enc |-> <<>>, conv |-> 0,
     pend |-> <<>>, ts |-> 0, list |-> <<>>]

\* ------------------------------------------------------------------ clock
\* Date.now(), in milliseconds, as the schemas' timestamps and line 80 read
\* it: a reading is no earlier than the readings made before it, and equal
\* to the last of them when both fall in one millisecond.  Only the order
\* of the readings is kept, counted from the stamps that are stored or
\* about to be stored: Latest is the latest of these, and clock is what
\* the next reading gives.
Latest ==
    LET Stamps == {convs[n].updatedAt : n \in DOMAIN convs}
                    \cup {msgs[i].createdAt : i \in DOMAIN msgs}
                    \cup {tasks[t].ts : t \in DOMAIN tasks}
    IN IF Stamps = {} THEN 0
       ELSE CHOOSE m \in Stamps : \A k \in Stamps : k <= m

\* The millisecond of the latest stamp is over: the next reading is later
\* than every stamp kept.
Elapsed == clock > Latest

\* The reading Date.now() gives in this step.
Now == clock

\* The clock after a step that read now: the millisecond of a reading that
\* is kept may be over by the next reading, or not.
Tick(now) ==
    clock' \in IF now > Latest' THEN {Latest' + 1} ELSE {Latest', Latest' + 1}

Init ==
    /\ online = [u \in Users |-> FALSE]
    /\ convs = <<>>
    /\ msgs = <<>>
    /\ socks = [s \in Sockets |-> NoSock]
    /\ tasks = <<>>
    /\ out = <<>>
    /\ chatLog = <<>>
    /\ pushLog = <<>>
    /\ fcm_tokens = RegisteredTokens
    /\ clock = Latest + 1

\* ------------------------------------------------------- presence helpers
\* Conversation.find({participants: userId}): the matching documents.
ConvsOf(u) == {n \in DOMAIN convs : u \in RangeOf(convs[n].participants)}

\* Array.from(partners) of lines 15-26: the ids in the order they are
\* added to the Set, conversation by conversation in the order find
\* returns them, an id that is there already staying where it is.
RECURSIVE AddPartners(_, _, _)
AddPartners(ids, u, acc) ==
    IF Len(ids) = 0 THEN acc
    ELSE AddPartners(Tail(ids), u,
                     IF Head(ids) = u \/ Head(ids) \in RangeOf(acc) THEN acc
                     ELSE Append(acc, Head(ids)))

RECURSIVE PartnersFrom(_, _, _)
PartnersFrom(n, u, acc) ==
    IF n > Len(convs) THEN acc
    ELSE PartnersFrom(n + 1, u,
                      IF u \in RangeOf(convs[n].participants)
                      THEN AddPartners(convs[n].participants, u, acc) ELSE acc)

\* getActiveChatPartners: the other participants of the user's conversations.
getActiveChatPartners(u) == PartnersFrom(1, u, <<>>)

\* A faulty variant: the earlier handler's socket.broadcast.emit, to every user.
StatusTargets_broadcast(u) ==
    getActiveChatPartners(u)
      \o SelectSeq(<<"u1", "u2", "u3">>,
                   LAMBDA p : p # u /\ p \notin RangeOf(getActiveChatPartners(u)))

\* A faulty variant: only the partners flagged online are notified.
StatusTargets_onlineOnly(u) ==
    SelectSeq(getActiveChatPartners(u), LAMBDA p : p \in Users /\ online[p])

\* The channels a user_status_change about u is emitted to, in order.
StatusTargets(u) == getActiveChatPartners(u)

\* The emits of partners.forEach in the handlers of socket s.
StatusEvents(s, isOnline) ==
    LET u == socks[s].user
        targets == StatusTargets(u)
    IN [i \in DOMAIN targets |->
          [ev |-> "user_status_change", to |-> <<targets[i]>>,
           userId |-> u, isOnline |-> isOnline, sock |-> s]]

\* ------------------------------------------------------------- connection
\* io.use(socketAuth) and the synchronous head of the connection handler:
\* socket.join(userId), the un-awaited is_online write, and the start of
\* the partners lookup.
Connect(s, token) ==
    /\ socks[s].phase = "new"
    /\ \A r \in Sockets : r < s => socks[r].phase # "new"
    /\ LET auth == socketAuth(token)
       IN socks' = [socks EXCEPT ![s] =
            IF auth.ok
            THEN [phase |-> "awaiting", token |-> token, user |-> auth.id,
                  connected |-> TRUE, pendingOn |-> TRUE, disc |-> "none",
                  rooms |-> {<<auth.id>>}]
            ELSE [NoSock EXCEPT !.phase = "rejected", !.token = token]]
    /\ out' = <<>>
    /\ UNCHANGED <<online, convs, msgs, tasks, chatLog, pushLog, fcm_tokens, clock>>

\* The store executes User.findByIdAndUpdate(userId, {is_online: true}).
OnlineWrite(s) ==
    /\ socks[s].pendingOn
    /\ online' = [online EXCEPT ![socks[s].user] = TRUE]
    /\ socks' = [socks EXCEPT ![s].pendingOn = FALSE]
    /\ out' = <<>>
    /\ UNCHANGED <<convs, msgs, tasks, chatLog, pushLog, fcm_tokens, clock>>

\* getActiveChatPartners resolves: the online notifications are emitted and
\* the socket's listeners (chat_message ... disconnect) are registered.
ConnectionReady(s) ==
    /\ socks[s].phase = "awaiting"
    /\ socks' = [socks EXCEPT ![s].phase = "ready"]
    /\ out' = StatusEvents(s, TRUE)
    /\ UNCHANGED <<online, convs, msgs, tasks, chatLog, pushLog, fcm_tokens, clock>>

\* A client event reaches a socket whose connection handler still awaits
\* getActiveChatPartners: socket.on has not run for any event, the packet is
\* dispatched to no listener and nothing is kept of it.
EventBeforeListeners(s, name) ==
    /\ socks[s].phase = "awaiting"
    /\ socks[s].connected
    /\ out' = << [ev |-> "no_listener", name |-> name, sock |-> s] >>
    /\ UNCHANGED <<online, convs, msgs, socks, tasks, chatLog, pushLog, fcm_tokens, clock>>

\* The transport closes.  socket.io leaves every room and emits 'disconnect'
\* on the socket: the handler runs only if its listener is registered.
ClientDisconnect(s) ==
    /\ socks[s].connected
    /\ socks' = [socks EXCEPT ![s].connected = FALSE,
                              ![s].rooms = {},
                              ![s].disc = IF socks[s].phase = "ready"
                                          THEN "write" ELSE "none"]
    /\ out' = <<>>
    /\ UNCHANGED <<online, convs, msgs, tasks, chatLog, pushLog, fcm_tokens, clock>>

\* disconnect handler: await User.findByIdAndUpdate(userId, {is_online: false}).
DisconnectWrite(s) ==
    /\ socks[s].disc = "write"
    /\ online' = [online EXCEPT ![socks[s].user] = FALSE]
    /\ socks' = [socks EXCEPT ![s].disc = "partners"]
    /\ out' = <<>>
    /\ UNCHANGED <<convs, msgs, tasks, chatLog, pushLog, fcm_tokens, clock>>

\* disconnect handler: await getActiveChatPartners, then the offline emits.
DisconnectNotify(s) ==
    /\ socks[s].disc = "partners"
    /\ socks' = [socks EXCEPT ![s].disc = "done"]
    /\ out' = StatusEvents(s, FALSE)
    /\ UNCHANGED <<online, convs, msgs, tasks, chatLog, pushLog, fcm_tokens, clock>>

Listening(s) == socks[s].phase = "ready" /\ socks[s].connected

\* ------------------------------------------------------------------ codec
\* A message body is modelled as the sequence of its ':'-separated parts,
\* each part a sequence of symbols; "" is the empty sequence.  A hex part
\* starts with the symbol "hex".
Plain(word) == << <<word>> >>
EmptyText == <<>>

\* text.split(':') rejoined with ':' in one part (the bytes of the text).
RECURSIVE Flatten(_)
Flatten(text) ==
    IF Len(text) = 0 THEN <<>>
    ELSE IF Len(text) = 1 THEN text[1]
    ELSE text[1] \o <<":">> \o Flatten(Tail(text))

RECURSIVE Unflatten(_, _)
Unflatten(bytes, acc) ==
    IF Len(bytes) = 0 THEN <<acc>>
    ELSE IF Head(bytes) = ":" THEN <<acc>> \o Unflatten(Tail(bytes), <<>>)
    ELSE Unflatten(Tail(bytes), Append(acc, Head(bytes)))

\* crypto.randomBytes(16): the initialisation vectors a call may draw.
IVs == {"iv1", "iv2"}

IsHex(part) == Len(part) > 0 /\ part[1] = "hex"

\* The block length of aes-256-cbc, in bytes.
BlockSize == 16

\* The number of bytes of a sequence of symbols: a symbol is the text it
\* shows, the replacement character takes three bytes.
RECURSIVE ByteLen(_)
ByteLen(bytes) ==
    IF Len(bytes) = 0 THEN 0
    ELSE (IF Head(bytes) = "U+FFFD" THEN 3 ELSE Len(Head(bytes))) + ByteLen(Tail(bytes))

\* aes-256-cbc under MESSAGE_SECRET_KEY with PKCS#7 padding: the hex text
\* of the ciphertext, written as the bytes it encloses and the iv its first
\* block is chained to.
CipherBytes(iv, bytes) == <<"hex", "aes", iv>> \o bytes

\* The symbols that begin after the first block (a symbol that begins in
\* the first block is garbled with it).
RECURSIVE AfterFirstBlock(_, _)
AfterFirstBlock(bytes, offset) ==
    IF Len(bytes) = 0 THEN <<>>
    ELSE IF offset >= BlockSize THEN bytes
    ELSE AfterFirstBlock(Tail(bytes), offset + ByteLen(<<Head(bytes)>>))

\* decipher.update(...) and decipher.final() of a part under an iv.  A
\* part that is no hex, or the hex of no whole block, makes final() throw.
\* A ciphertext deciphers to its bytes under the iv it was chained to (to no
\* bytes for the cipher of the empty string).  Under another iv its first
\* block is garbled: with more blocks the padding, in the last one, is
\* intact and the rest follows the garbled block; with one block the
\* padding is garbled too, and final() throws unless the garbled bytes
\* happen to end in a valid padding, which padOk tells (the parts for which
\* they do).  A 16-byte hex that no cipher produced deciphers likewise.
Decipher(iv, part, padOk) ==
    LET bytes == SubSeq(part, 4, Len(part))
    IN IF ~IsHex(part) \/ Len(part) < 2 THEN [ok |-> FALSE, bytes |-> <<>>]
       ELSE IF Len(part) = 2 \/ part[2] # "aes"
       THEN [ok |-> Len(part) = 2 /\ part \in padOk, bytes |-> <<"garbled">>]
       ELSE IF part[3] = iv THEN [ok |-> TRUE, bytes |-> bytes]
       ELSE IF ByteLen(bytes) < BlockSize
       THEN [ok |-> part \in padOk, bytes |-> <<"garbled">>]
       ELSE [ok |-> TRUE, bytes |-> <<"garbled">> \o AfterFirstBlock(bytes, 0)]

\* cipher.update(text) encodes the string as UTF-8: a UTF-16 code unit that
\* is half of a surrogate pair on its own has no encoding and becomes the
\* replacement character U+FFFD.
LoneSurrogate == "U+D83D"
Utf8(symbols) ==
    [i \in DOMAIN symbols |->
       IF symbols[i] = LoneSurrogate THEN "U+FFFD" ELSE symbols[i]]

\* encrypt(text): "" and undefined are returned as they are.
encrypt(text, iv) ==
    IF text = EmptyText THEN text
    ELSE << <<"hex", iv>>, CipherBytes(iv, Utf8(Flatten(text))) >>

\* decrypt(text): text without ':' is returned as it is.  The iv is the
\* first part; Buffer.from(rest, 'hex') stops at the first character that
\* is no hex digit, so the ciphertext is the second part and what follows
\* its ':' is dropped.  A first part that is no hex of 16 bytes (an iv, or
\* a ciphertext of one block) and a ciphertext that does not decipher
\* throw: the text is returned as it is.  padOk is as for Decipher.
decrypt(text, padOk) ==
    IF text = EmptyText THEN text
    ELSE IF Len(text) < 2 THEN text
    ELSE LET ivPart == text[1]
             iv == IF ~IsHex(ivPart) \/ Len(ivPart) < 2 THEN ""
                   ELSE IF Len(ivPart) = 2 THEN ivPart[2]
                   ELSE IF ivPart[2] = "aes"
                           /\ ByteLen(SubSeq(ivPart, 4, Len(ivPart))) < BlockSize
                   THEN "block" ELSE ""
             plain == Decipher(iv, text[2], padOk)
         IN IF iv = "" \/ ~plain.ok THEN text
            ELSE IF plain.bytes = <<>> THEN EmptyText
            ELSE Unflatten(plain.bytes, <<>>)

DeletedPlaceholder == Plain("This message was deleted")
ImageLabel == Plain("Image")
StartChat == Plain("Start")
StartJoin == Plain("Start of conversation")

MessageTypes == {"text", "image", "audio"}

\* ------------------------------------------------------------ store reads
ConvIndex(id) == IF \E n \in DOMAIN convs : ConvIdOf[n] = id
                 THEN CHOOSE n \in DOMAIN convs : ConvIdOf[n] = id ELSE 0
MsgIndex(id) == IF \E n \in DOMAIN msgs : MsgIdOf[n] = id
                THEN CHOOSE n \in DOMAIN msgs : MsgIdOf[n] = id ELSE 0

\* A faulty variant: the participants array is compared as stored, in order.
MatchAll_ordered(ids) == {n \in DOMAIN convs : convs[n].participants = ids}

\* Conversation.findOne({participants: {$all: ids}}): the documents that
\* match; the query sets no order, so findOne may return any of them.
MatchAll(ids) == {n \in DOMAIN convs : \A p \in RangeOf(ids) : p \in RangeOf(convs[n].participants)}

\* Casting a query or a document path to ObjectId.
CastsToObjectId(ids) == \A i \in DOMAIN ids : IsValidObjectId(<<ids[i]>>)

\* ------------------------------------------------------------------ tasks
\* tasks holds the handlers in flight in the order their events arrived.
HasFreeSlot == Len(tasks) < MaxTasks
Start(handler) == Append(tasks, handler)
Running(t, kind, pc) == t \in DOMAIN tasks /\ tasks[t].kind = kind /\ tasks[t].pc = pc

\* Handlers in flight that may still insert a Conversation / a Message.
MayCreateConv == {t \in DOMAIN tasks : tasks[t].kind \in {"chat", "join"} /\ tasks[t].pc \in {"find", "create"}}
MayCreateMsg == {t \in DOMAIN tasks : tasks[t].kind = "chat" /\ tasks[t].pc \in {"find", "create", "save"}}

UserOf(t) == socks[tasks[t].sock].user

\* The handler returns: it leaves the handlers in flight.
Finish(t) == SubSeq(tasks, 1, t - 1) \o SubSeq(tasks, t + 1, Len(tasks))

\* ------------------------------------------------------------ chat_message
\* The event arrives: the synchronous head of the handler, up to its first
\* await.  A roomId that is no ObjectId and has two '_'-parts starts the
\* lookup of the pair's conversation; one that has another number of parts
\* reaches new Message({conversation_id: roomId}), whose save() is rejected
\* by the schema's cast, and the catch ends the handler.  save() stamps
\* createdAt when it is called.
ChatMessage(s, content, room, type) ==
    /\ Listening(s)
    /\ HasFreeSlot
    /\ Len(msgs) + Cardinality(MayCreateMsg) < MaxMsgs
    /\ IF IsValidObjectId(room) THEN TRUE
       ELSE Len(convs) + Cardinality(MayCreateConv) < MaxConvs
    /\ \E iv \in IVs, now \in {Now} :
         /\ tasks' =
              IF IsValidObjectId(room)
              THEN Start([Handler EXCEPT !.kind = "chat", !.pc = "save", !.sock = s,
                                   !.room = room, !.content = content, !.type = type,
                                   !.enc = encrypt(content, iv), !.ts = now])
              ELSE IF Len(room) = 2
              THEN Start([Handler EXCEPT !.kind = "chat", !.pc = "find", !.sock = s,
                                   !.room = room, !.content = content, !.type = type])
              ELSE tasks
         /\ out' = <<>>
         /\ UNCHANGED <<online, convs, msgs, socks, chatLog, pushLog, fcm_tokens>>
         /\ Tick(now)

\* await Conversation.findOne({participants: {$all: parts}}): a part that
\* is no ObjectId makes the query throw (caught); a match gives the roomId;
\* no match starts conv.save().  Either save() stamps its document when it
\* is called.
ChatFind(t) ==
    /\ Running(t, "chat", "find")
    /\ LET parts == tasks[t].room
           found == IF CastsToObjectId(parts) THEN MatchAll(parts) ELSE {}
       IN \E n \in (IF found = {} THEN {0} ELSE found), iv \in IVs,
             now \in {Now} :
            /\ tasks' =
                 IF ~CastsToObjectId(parts) THEN Finish(t)
                 ELSE IF n = 0 THEN [tasks EXCEPT ![t].pc = "create", ![t].ts = now]
                 ELSE [tasks EXCEPT ![t].pc = "save",
                                    ![t].room = <<ConvIdOf[n]>>,
                                    ![t].enc = encrypt(tasks[t].content, iv),
                                    ![t].ts = now]
            /\ out' = <<>>
            /\ UNCHANGED <<online, convs, msgs, socks, chatLog, pushLog, fcm_tokens>>
            /\ Tick(now)

\* await conv.save() of new Conversation({participants: parts,
\* last_message: 'Start'}); then roomId = conv._id and encrypt(content).
ChatCreate(t) ==
    /\ Running(t, "chat", "create")
    /\ convs' = Append(convs, [participants |-> tasks[t].room,
                               last_message |-> StartChat,
                               updatedAt |-> tasks[t].ts])
    /\ \E iv \in IVs, now \in {Now} :
         /\ tasks' = [tasks EXCEPT ![t].pc = "save",
                                   ![t].room = <<ConvIdOf[Len(convs) + 1]>>,
                                   ![t].enc = encrypt(tasks[t].content, iv),
                                   ![t].ts = now]
         /\ out' = <<>>
         /\ UNCHANGED <<online, msgs, socks, chatLog, pushLog, fcm_tokens>>
         /\ Tick(now)

\* MessageSchema: content is required (a non-empty string), type is one of
\* the enum; conversation_id and sender_id cast to ObjectId.
MessageValid(doc) ==
    /\ doc.content # EmptyText
    /\ doc.type \in MessageTypes
    /\ IsValidObjectId(<<doc.conversation_id>>)
    /\ IsValidObjectId(<<doc.sender_id>>)

\* A faulty variant: a rejected save is not noticed and the handler goes on.
ChatSave_unchecked(t) ==
    /\ Running(t, "chat", "save")
    /\ LET doc == [conversation_id |-> tasks[t].room[1],
                   sender_id |-> UserOf(t),
                   content |-> tasks[t].enc,
                   type |-> tasks[t].type,
                   isDeleted |-> FALSE,
                   status |-> "sent",
                   createdAt |-> tasks[t].ts]
       IN \E now \in {Now} :
            /\ msgs' = IF MessageValid(doc) THEN Append(msgs, doc) ELSE msgs
            /\ tasks' = [tasks EXCEPT ![t].pc = "update",
                                      ![t].msg = MsgIdOf[Len(msgs) + 1],
                                      ![t].ts = now]
            /\ out' = <<>>
            /\ UNCHANGED <<online, convs, socks, chatLog, pushLog, fcm_tokens>>
            /\ Tick(now)

\* await newMessage.save(): a document the schema rejects throws (caught);
\* otherwise findByIdAndUpdate is called with updatedAt: Date.now().
ChatSave(t) ==
    /\ Running(t, "chat", "save")
    /\ LET doc == [conversation_id |-> tasks[t].room[1],
                   sender_id |-> UserOf(t),
                   content |-> tasks[t].enc,
                   type |-> tasks[t].type,
                   isDeleted |-> FALSE,
                   status |-> "sent",
                   createdAt |-> tasks[t].ts]
       IN \E now \in {Now} :
            /\ IF MessageValid(doc)
               THEN /\ msgs' = Append(msgs, doc)
                    /\ tasks' = [tasks EXCEPT ![t].pc = "update",
                                              ![t].msg = MsgIdOf[Len(msgs) + 1],
                                              ![t].ts = now]
               ELSE /\ msgs' = msgs
                    /\ tasks' = Finish(t)
            /\ out' = <<>>
            /\ UNCHANGED <<online, convs, socks, chatLog, pushLog, fcm_tokens>>
            /\ Tick(now)

\* The outbound chat_message payload (lines 83-93).
ChatPayload(t) ==
    [_id |-> tasks[t].msg,
     content |-> tasks[t].content,
     sender_id |-> UserOf(t),
     sender_name |-> Username(UserOf(t)),
     roomId |-> tasks[t].room,
     type |-> tasks[t].type,
     isDeleted |-> FALSE,
     status |-> "sent"]

\* The emits of conversation.participants.forEach: one per participant,
\* to the channel named by the participant's id.
ChatEmits(t, participants) ==
    [i \in DOMAIN participants |->
       [ev |-> "chat_message", to |-> <<participants[i]>>, payload |-> ChatPayload(t)]]

\* await Conversation.findByIdAndUpdate(roomId, {last_message, updatedAt},
\* {new: true}); then the payload is emitted to every participant's channel
\* and, for each participant other than the sender, User.findById starts.
ChatUpdate(t) ==
    /\ Running(t, "chat", "update")
    /\ LET n == ConvIndex(tasks[t].room[1])
       IN IF n = 0
          THEN /\ convs' = convs
               /\ tasks' = Finish(t)
               /\ out' = <<>>
               /\ chatLog' = chatLog
          ELSE LET participants == convs[n].participants
                   pend == [i \in DOMAIN participants |->
                              IF participants[i] # UserOf(t) THEN "find" ELSE "skip"]
               IN /\ convs' = [convs EXCEPT
                                 ![n].last_message = IF tasks[t].type = "image"
                                                     THEN ImageLabel ELSE tasks[t].enc,
                                 ![n].updatedAt = tasks[t].ts]
                  /\ out' = ChatEmits(t, participants)
                  /\ chatLog' = chatLog \o ChatEmits(t, participants)
                  /\ tasks' = IF \A i \in DOMAIN pend : pend[i] = "skip"
                              THEN Finish(t)
                              ELSE [tasks EXCEPT ![t].pc = "push", ![t].conv = n,
                                                 ![t].pend = pend, ![t].ts = 0]
    /\ UNCHANGED <<online, msgs, socks, pushLog, fcm_tokens>>
    /\ Tick(clock)

\* The push body, fixed text.
PushBody == Plain("Tap to view message")

\* A faulty variant: the body carries the message text.
PushCall_leaky(t, recipient) ==
    [tokens |-> FcmTokens(recipient),
     title |-> <<"New Message from", Username(UserOf(t))>>,
     body |-> tasks[t].content,
     roomId |-> tasks[t].room,
     senderId |-> UserOf(t),
     type |-> "chat_message"]

\* A faulty variant: the title quotes the message text.
PushCall_quoting(t, recipient) ==
    [tokens |-> FcmTokens(recipient),
     title |-> <<"New Message from", Username(UserOf(t)), tasks[t].content>>,
     body |-> PushBody,
     roomId |-> tasks[t].room,
     senderId |-> UserOf(t),
     type |-> "chat_message"]

\* The argument of admin.messaging().sendEachForMulticast (lines 110-123).
PushCall(t, recipient) ==
    [tokens |-> FcmTokens(recipient),
     title |-> <<"New Message from", Username(UserOf(t))>>,
     body |-> PushBody,
     roomId |-> tasks[t].room,
     senderId |-> UserOf(t),
     type |-> "chat_message"]

\* Whether the i-th participant is to be pushed to (line 109): the User
\* document exists, is flagged offline, and holds a token.
WantsPush(recipient) ==
    /\ recipient \in Users
    /\ ~online[recipient]
    /\ Len(FcmTokens(recipient)) > 0

PendAfter(t, i, v) == [tasks[t].pend EXCEPT ![i] = v]
PendOver(pend) == \A i \in DOMAIN pend : pend[i] \in {"skip", "done"}

\* await User.findById(participantId) of the i-th participant's callback;
\* then sendEachForMulticast is called, or the callback ends.
ChatPushFind(t, i) ==
    /\ Running(t, "chat", "push")
    /\ i \in DOMAIN tasks[t].pend /\ tasks[t].pend[i] = "find"
    /\ LET recipient == convs[tasks[t].conv].participants[i]
       IN IF WantsPush(recipient)
          THEN /\ pushLog' = Append(pushLog, [call |-> PushCall(t, recipient),
                                              msg |-> tasks[t].msg, to |-> recipient])
               /\ tasks' = [tasks EXCEPT ![t].pend = PendAfter(t, i, "call")]
          ELSE /\ pushLog' = pushLog
               /\ tasks' = IF PendOver(PendAfter(t, i, "done")) THEN Finish(t)
                           ELSE [tasks EXCEPT ![t].pend = PendAfter(t, i, "done")]
    /\ out' = <<>>
    /\ UNCHANGED <<online, convs, msgs, socks, chatLog, fcm_tokens, clock>>

\* A faulty variant: a rejected call is made again.
ChatPushSettle_retrying(t, i, ok) ==
    /\ Running(t, "chat", "push")
    /\ i \in DOMAIN tasks[t].pend /\ tasks[t].pend[i] = "call"
    /\ tasks' = IF ~ok THEN [tasks EXCEPT ![t].pend = PendAfter(t, i, "find")]
                ELSE IF PendOver(PendAfter(t, i, "done")) THEN Finish(t)
                ELSE [tasks EXCEPT ![t].pend = PendAfter(t, i, "done")]
    /\ out' = << [ev |-> "fcm_settled", ok |-> ok, msg |-> tasks[t].msg] >>
    /\ UNCHANGED <<online, convs, msgs, socks, chatLog, pushLog, fcm_tokens, clock>>

\* await sendEachForMulticast(...) settles: resolved, or rejected and logged
\* by the inner catch.
ChatPushSettle(t, i, ok) ==
    /\ Running(t, "chat", "push")
    /\ i \in DOMAIN tasks[t].pend /\ tasks[t].pend[i] = "call"
    /\ tasks' = IF PendOver(PendAfter(t, i, "done")) THEN Finish(t)
                ELSE [tasks EXCEPT ![t].pend = PendAfter(t, i, "done")]
    /\ out' = << [ev |-> "fcm_settled", ok |-> ok, msg |-> tasks[t].msg] >>
    /\ UNCHANGED <<online, convs, msgs, socks, chatLog, pushLog, fcm_tokens, clock>>

\* -------------------------------------------------------- join_private_chat
\* The event arrives; its first await is the lookup.
JoinPrivateChat(s, otherUserId) ==
    /\ Listening(s)
    /\ HasFreeSlot
    /\ IF MatchAll(<<socks[s].user, otherUserId>>) # {} THEN TRUE
       ELSE Len(convs) + Cardinality(MayCreateConv) < MaxConvs
    /\ tasks' = Start([Handler EXCEPT !.kind = "join", !.pc = "find", !.sock = s,
                                !.other = otherUserId])
    /\ out' = <<>>
    /\ UNCHANGED <<online, convs, msgs, socks, chatLog, pushLog, fcm_tokens, clock>>

\* await Conversation.findOne({participants: {$all: [myUserId, otherUserId]}});
\* no match calls conversation.save(), which stamps the document.
JoinFind(t) ==
    /\ Running(t, "join", "find")
    /\ LET pair == <<UserOf(t), tasks[t].other>>
           found == IF CastsToObjectId(pair) THEN MatchAll(pair) ELSE {}
       IN \E n \in (IF found = {} THEN {0} ELSE found),
             now \in {Now} :
            /\ tasks' =
                 IF ~CastsToObjectId(pair) THEN Finish(t)
                 ELSE IF n = 0 THEN [tasks EXCEPT ![t].pc = "create", ![t].ts = now]
                 ELSE [tasks EXCEPT ![t].pc = "history", ![t].room = <<ConvIdOf[n]>>]
            /\ out' = <<>>
            /\ UNCHANGED <<online, convs, msgs, socks, chatLog, pushLog, fcm_tokens>>
            /\ Tick(now)

\* await conversation.save() of new Conversation({participants:
\* [myUserId, otherUserId], last_message: 'Start of conversation'}).
JoinCreate(t) ==
    /\ Running(t, "join", "create")
    /\ convs' = Append(convs, [participants |-> <<UserOf(t), tasks[t].other>>,
                               last_message |-> StartJoin,
                               updatedAt |-> tasks[t].ts])
    /\ tasks' = [tasks EXCEPT ![t].pc = "history",
                              ![t].room = <<ConvIdOf[Len(convs) + 1]>>,
                              ![t].ts = 0]
    /\ out' = <<>>
    /\ UNCHANGED <<online, msgs, socks, chatLog, pushLog, fcm_tokens>>
    /\ Tick(clock)

\* .limit(50) of the history query.
HistoryLimit == 50

\* Message.find({conversation_id}).sort({createdAt: -1}).limit(50), reversed:
\* the indexes of the newest messages of the conversation, oldest first.
RECURSIVE LastOf(_, _)
LastOf(seq, k) == IF Len(seq) <= k THEN seq ELSE LastOf(Tail(seq), k)

\* sort() of documents, given by their indexes, on one field, given per
\* index, ascending: the orders the sort may give.  It sets no order for
\* documents whose field is equal, so these come in any order.
SortedBy(ids, field) ==
    LET base == SortSeq(ids, LAMBDA i, j : field[i] < field[j]
                                            \/ (field[i] = field[j] /\ i < j))
        at(k) == field[base[k]]
        tied == {k \in DOMAIN base :
                   \E j \in {k - 1, k + 1} \cap DOMAIN base : at(j) = at(k)}
        swaps == {f \in [tied -> tied] :
                    /\ \A k \in tied : at(f[k]) = at(k)
                    /\ \A j, k \in tied : f[j] = f[k] => j = k}
    IN {[k \in DOMAIN base |-> IF k \in tied THEN base[f[k]] ELSE base[k]] : f \in swaps}

\* sort({createdAt: ...}) over the stored messages of the conversation,
\* oldest first.
ByCreatedAt(convId) ==
    SortedBy(SelectSeq([i \in DOMAIN msgs |-> i],
                       LAMBDA i : msgs[i].conversation_id = convId),
             [i \in DOMAIN msgs |-> msgs[i].createdAt])

\* The histories the query of lines 153-156 may give, as message indexes.
HistoryIndexes(convId) == {LastOf(order, HistoryLimit) : order \in ByCreatedAt(convId)}

\* A faulty variant: the content is decrypted whatever the flag says.
HistoryContent_noPlaceholder(m, padOk) == decrypt(m.content, padOk)

\* content of a history entry (line 160).
HistoryContent(m, padOk) ==
    IF m.isDeleted THEN DeletedPlaceholder ELSE decrypt(m.content, padOk)

\* The stored bodies whose deciphering hangs on the garbled padding: the
\* second parts of the texts that decrypt to one thing or another.
PadChoices(ids) ==
    SUBSET {msgs[i].content[2] : i \in {j \in ids : /\ Len(msgs[j].content) > 1
                                                    /\ decrypt(msgs[j].content, {})
                                                         # decrypt(msgs[j].content, {msgs[j].content[2]})}}

\* One entry of the history (lines 158-168).
HistoryEntry(i, myUserId, roomId, padOk) ==
    [_id |-> MsgIdOf[i],
     content |-> HistoryContent(msgs[i], padOk),
     sender_id |-> msgs[i].sender_id,
     sender_name |-> IF msgs[i].sender_id = myUserId THEN "Me" ELSE "Partner",
     roomId |-> roomId,
     type |-> msgs[i].type,
     isDeleted |-> msgs[i].isDeleted,
     status |-> msgs[i].status]

\* A faulty variant: the socket joins the channel named by otherUserId.
JoinHistory_joinsOther(t) ==
    /\ Running(t, "join", "history")
    /\ \E idx \in HistoryIndexes(tasks[t].room[1]) : \E padOk \in PadChoices(RangeOf(idx)) :
       \E joins \in (IF socks[tasks[t].sock].connected THEN {TRUE} ELSE BOOLEAN) :
       LET roomId == tasks[t].room
           s == tasks[t].sock
       IN /\ socks' = [socks EXCEPT ![s].rooms =
                         IF joins THEN @ \cup {<<tasks[t].other>>} ELSE @]
          /\ out' = << [ev |-> "private_chat_ready", to |-> s,
                        by |-> UserOf(t), other |-> tasks[t].other,
                        roomId |-> roomId,
                        history |-> [k \in DOMAIN idx |->
                                       HistoryEntry(idx[k], UserOf(t), roomId, padOk)]] >>
    /\ tasks' = Finish(t)
    /\ UNCHANGED <<online, convs, msgs, chatLog, pushLog, fcm_tokens, clock>>

\* await Message.find(...); then the history is mapped, the socket joins
\* the conversation's channel (line 170) and private_chat_ready is sent to
\* it.  On a socket that has closed meanwhile socket.join() enters the
\* channel or does nothing, as the installed socket.io has it (it does
\* nothing from 4.5.2 on; the sources name no version).
JoinHistory(t) ==
    /\ Running(t, "join", "history")
    /\ \E idx \in HistoryIndexes(tasks[t].room[1]) : \E padOk \in PadChoices(RangeOf(idx)) :
       \E joins \in (IF socks[tasks[t].sock].connected THEN {TRUE} ELSE BOOLEAN) :
       LET roomId == tasks[t].room
           s == tasks[t].sock
       IN /\ socks' = [socks EXCEPT ![s].rooms =
                         IF joins THEN @ \cup {roomId} ELSE @]
          /\ out' = << [ev |-> "private_chat_ready", to |-> s,
                        by |-> UserOf(t), other |-> tasks[t].other,
                        roomId |-> roomId,
                        history |-> [k \in DOMAIN idx |->
                                       HistoryEntry(idx[k], UserOf(t), roomId, padOk)]] >>
    /\ tasks' = Finish(t)
    /\ UNCHANGED <<online, convs, msgs, chatLog, pushLog, fcm_tokens, clock>>

\* --------------------------------------------------------- conversation:read
\* The event arrives: a roomId that is no ObjectId returns at once.
ConversationRead(s, room) ==
    /\ Listening(s)
    /\ HasFreeSlot
    /\ tasks' = IF IsValidObjectId(room)
                THEN Start([Handler EXCEPT !.kind = "read", !.pc = "update", !.sock = s,
                                     !.room = room])
                ELSE tasks
    /\ out' = <<>>
    /\ UNCHANGED <<online, convs, msgs, socks, chatLog, pushLog, fcm_tokens, clock>>

\* A faulty variant: the filter lacks sender_id: {$ne: myUserId}.
ReadFilter_ownToo(m, convId, myUserId) ==
    m.conversation_id = convId /\ m.status # "read"

\* A faulty variant: the filter selects status 'sent' only.
ReadFilter_sentOnly(m, convId, myUserId) ==
    m.conversation_id = convId /\ m.sender_id # myUserId /\ m.status = "sent"

\* The filter of Message.updateMany (line 182).
ReadFilter(m, convId, myUserId) ==
    m.conversation_id = convId /\ m.sender_id # myUserId /\ m.status # "read"

\* await Message.updateMany(filter, {$set: {status: 'read'}}); then
\* conversation:read_ack goes to the channel named by the request's roomId.
ReadUpdate(t) ==
    /\ Running(t, "read", "update")
    /\ msgs' = [i \in DOMAIN msgs |->
                  IF ReadFilter(msgs[i], tasks[t].room[1], UserOf(t))
                  THEN [msgs[i] EXCEPT !.status = "read"] ELSE msgs[i]]
    /\ out' = << [ev |-> "conversation:read_ack", to |-> tasks[t].room,
                  roomId |-> tasks[t].room, readerId |-> UserOf(t)] >>
    /\ tasks' = Finish(t)
    /\ UNCHANGED <<online, convs, socks, chatLog, pushLog, fcm_tokens, clock>>

\* ------------------------------------------------------------ message:delete
MessageDelete(s, messageId, room) ==
    /\ Listening(s)
    /\ HasFreeSlot
    /\ tasks' = Start([Handler EXCEPT !.kind = "delete", !.pc = "find", !.sock = s,
                                !.msg = messageId, !.room = room])
    /\ out' = <<>>
    /\ UNCHANGED <<online, convs, msgs, socks, chatLog, pushLog, fcm_tokens, clock>>

\* A faulty variant: any requester may delete.
MayDelete_anyone(m, requester) == TRUE

\* The guard of line 192: only the message's sender passes.
MayDelete(m, requester) == m.sender_id = requester

\* await Message.findById(messageId): an id that is no ObjectId throws
\* (caught), an unknown id or another user's message returns; otherwise
\* msg.isDeleted = true and msg.save() starts.
DeleteFind(t) ==
    /\ Running(t, "delete", "find")
    /\ LET i == MsgIndex(tasks[t].msg)
       IN tasks' = IF i # 0 /\ MayDelete(msgs[i], UserOf(t))
                   THEN [tasks EXCEPT ![t].pc = "save"]
                   ELSE Finish(t)
    /\ out' = <<>>
    /\ UNCHANGED <<online, convs, msgs, socks, chatLog, pushLog, fcm_tokens, clock>>

\* A faulty variant: the message is removed from the collection.
DeleteSave_remove(t) ==
    /\ Running(t, "delete", "save")
    /\ LET i == MsgIndex(tasks[t].msg)
       IN msgs' = SubSeq(msgs, 1, i - 1) \o SubSeq(msgs, i + 1, Len(msgs))
    /\ out' = << [ev |-> "message:deleted", to |-> tasks[t].room,
                  messageId |-> tasks[t].msg, by |-> UserOf(t)] >>
    /\ tasks' = Finish(t)
    /\ UNCHANGED <<online, convs, socks, chatLog, pushLog, fcm_tokens, clock>>

\* await msg.save(): the store sets the modified path, isDeleted; then
\* message:deleted goes to the channel named by the request's roomId.
\* The payload is the messageId; "by" records the handler's user.
DeleteSave(t) ==
    /\ Running(t, "delete", "save")
    /\ msgs' = [msgs EXCEPT ![MsgIndex(tasks[t].msg)].isDeleted = TRUE]
    /\ out' = << [ev |-> "message:deleted", to |-> tasks[t].room,
                  messageId |-> tasks[t].msg, by |-> UserOf(t)] >>
    /\ tasks' = Finish(t)
    /\ UNCHANGED <<online, convs, socks, chatLog, pushLog, fcm_tokens, clock>>

\* --------------------------------------------------------- message:delivered
MessageDelivered(s, messageId, room) ==
    /\ Listening(s)
    /\ HasFreeSlot
    /\ tasks' = Start([Handler EXCEPT !.kind = "delivered", !.pc = "find", !.sock = s,
                                !.msg = messageId, !.room = room])
    /\ out' = <<>>
    /\ UNCHANGED <<online, convs, msgs, socks, chatLog, pushLog, fcm_tokens, clock>>

\* await Message.findById(messageId); if the loaded status is 'sent',
\* msg.status = 'delivered' and msg.save() starts.
DeliveredFind(t) ==
    /\ Running(t, "delivered", "find")
    /\ LET i == MsgIndex(tasks[t].msg)
       IN tasks' = IF i # 0 /\ msgs[i].status = "sent"
                   THEN [tasks EXCEPT ![t].pc = "save"]
                   ELSE Finish(t)
    /\ out' = <<>>
    /\ UNCHANGED <<online, convs, msgs, socks, chatLog, pushLog, fcm_tokens, clock>>

\* A faulty variant: the save writes the soft-delete flag too, cleared.
DeliveredSave_clearingFlag(t) ==
    /\ Running(t, "delivered", "save")
    /\ msgs' = [msgs EXCEPT ![MsgIndex(tasks[t].msg)].status = "delivered",
                            ![MsgIndex(tasks[t].msg)].isDeleted = FALSE]
    /\ out' = << [ev |-> "message:status_update", to |-> tasks[t].room,
                  messageId |-> tasks[t].msg, status |-> "delivered",
                  roomId |-> tasks[t].room] >>
    /\ tasks' = Finish(t)
    /\ UNCHANGED <<online, convs, socks, chatLog, pushLog, fcm_tokens, clock>>

\* await msg.save(): the store sets the modified path, status, to
\* 'delivered' whatever it holds by then; then message:status_update goes
\* to the channel named by the request's roomId.
DeliveredSave(t) ==
    /\ Running(t, "delivered", "save")
    /\ msgs' = [msgs EXCEPT ![MsgIndex(tasks[t].msg)].status = "delivered"]
    /\ out' = << [ev |-> "message:status_update", to |-> tasks[t].room,
                  messageId |-> tasks[t].msg, status |-> "delivered",
                  roomId |-> tasks[t].room] >>
    /\ tasks' = Finish(t)
    /\ UNCHANGED <<online, convs, socks, chatLog, pushLog, fcm_tokens, clock>>

\* ---------------------------------------------------------- getConversations
\* Message.findOne({conversation_id}).sort({createdAt: -1}): the newest
\* message of the conversation, any of those stamped alike; 0 for none.
LastMsgIndex(convId) ==
    {IF Len(order) = 0 THEN 0 ELSE order[Len(order)] : order \in ByCreatedAt(convId)}

\* preview.includes(...) for the two labels the controller tests: the
\* label is somewhere in the text as it is stored (a label holds no ':').
\* A part that is hex shows hex digits only, whatever it encloses, and
\* holds no label.
IsLabel(text) ==
    \E p \in DOMAIN text :
        /\ ~IsHex(text[p])
        /\ \E k \in DOMAIN text[p] : <<text[p][k]>> \in {ImageLabel[1], StartJoin[1]}

\* lastMessage of a conversation whose newest message is i (lines 25-42).
ListPreview(i, padOk) ==
    IF i = 0 THEN StartJoin
    ELSE IF ~msgs[i].isDeleted /\ msgs[i].content # EmptyText /\ ~IsLabel(msgs[i].content)
         THEN decrypt(msgs[i].content, padOk)
         ELSE msgs[i].content

\* conv.participants.find(id => id.toString() !== userId): "" for none.
ListOther(n, userId) ==
    LET others == SelectSeq(convs[n].participants, LAMBDA p : p # userId)
    IN IF Len(others) = 0 THEN "" ELSE others[1]

\* GET /conversations/:userId arrives: the handler runs to its first await.
GetConversations(userId) ==
    /\ HasFreeSlot
    /\ tasks' = Start([Handler EXCEPT !.kind = "list", !.pc = "find", !.other = userId])
    /\ out' = <<>>
    /\ UNCHANGED <<online, convs, msgs, socks, chatLog, pushLog, fcm_tokens, clock>>

\* The callbacks of conversations.map have all returned: Promise.all
\* resolves and res.json sends the entries that are not null, in the order
\* of the find.  Until then the request waits.
ListAnswer(t, list) ==
    IF \E k \in DOMAIN list : list[k].pc \in {"user", "message"}
    THEN /\ tasks' = [tasks EXCEPT ![t].pc = "entries", ![t].list = list]
         /\ out' = <<>>
    ELSE /\ tasks' = Finish(t)
         /\ out' = << [ev |-> "conversations", userId |-> tasks[t].other, status |-> 200,
                       list |-> LET kept == SelectSeq(list, LAMBDA e : e.pc = "done")
                                IN [k \in DOMAIN kept |->
                                      [id |-> kept[k].id,
                                       otherUser |-> kept[k].otherUser,
                                       lastMessage |-> kept[k].lastMessage,
                                       lastMessageIsDeleted |-> kept[k].lastMessageIsDeleted,
                                       updatedAt |-> kept[k].updatedAt]]] >>

\* await Conversation.find({participants: userId}).sort({updatedAt: -1}): a
\* userId that is no ObjectId makes the query throw, and the catch answers
\* 500.  Otherwise the callback of every conversation found starts and
\* runs to its User.findById.
ListFind(t) ==
    /\ Running(t, "list", "find")
    /\ LET userId == tasks[t].other
       IN IF ~IsValidObjectId(<<userId>>)
          THEN /\ tasks' = Finish(t)
               /\ out' = << [ev |-> "conversations", userId |-> userId, status |-> 500,
                             list |-> <<>>] >>
          ELSE \E found \in SortedBy(SelectSeq([n \in DOMAIN convs |-> n],
                                               LAMBDA n : n \in ConvsOf(userId)),
                                     [n \in DOMAIN convs |-> 0 - convs[n].updatedAt]) :
                 ListAnswer(t, [k \in DOMAIN found |->
                                  [id |-> ConvIdOf[found[k]],
                                   otherUser |-> ListOther(found[k], userId),
                                   lastMessage |-> StartJoin,
                                   lastMessageIsDeleted |-> FALSE,
                                   updatedAt |-> convs[found[k]].updatedAt,
                                   pc |-> "user"]])
    /\ UNCHANGED <<online, convs, msgs, socks, chatLog, pushLog, fcm_tokens, clock>>

\* await User.findById(otherUserId) of the callback of one conversation:
\* without such a user the callback returns null, otherwise it goes on to
\* Message.findOne.
ListUser(t, k) ==
    /\ Running(t, "list", "entries")
    /\ k \in DOMAIN tasks[t].list
    /\ tasks[t].list[k].pc = "user"
    /\ ListAnswer(t, [tasks[t].list EXCEPT
                        ![k].pc = IF tasks[t].list[k].otherUser \in Users
                                  THEN "message" ELSE "null"])
    /\ UNCHANGED <<online, convs, msgs, socks, chatLog, pushLog, fcm_tokens, clock>>

\* await Message.findOne(...) of the callback of one conversation; the
\* callback then returns its entry.
ListMessage(t, k) ==
    /\ Running(t, "list", "entries")
    /\ k \in DOMAIN tasks[t].list
    /\ tasks[t].list[k].pc = "message"
    /\ \E i \in LastMsgIndex(tasks[t].list[k].id) : \E padOk \in PadChoices({i} \ {0}) :
         ListAnswer(t, [tasks[t].list EXCEPT
                          ![k].pc = "done",
                          ![k].lastMessage = ListPreview(i, padOk),
                          ![k].lastMessageIsDeleted =
                             IF i = 0 THEN FALSE ELSE msgs[i].isDeleted])
    /\ UNCHANGED <<online, convs, msgs, socks, chatLog, pushLog, fcm_tokens, clock>>

\* ------------------------------------------------------------ saveFcmToken
\* POST /fcm-token of an authenticated user: a missing token answers 400,
\* otherwise $addToSet appends the token unless the array holds it.
SaveFcmToken(userId, token) ==
    /\ fcm_tokens' =
         IF token = "" \/ token \in RangeOf(fcm_tokens[userId]) THEN fcm_tokens
         ELSE [fcm_tokens EXCEPT ![userId] = Append(@, token)]
    /\ out' = << [ev |-> "fcm_token", userId |-> userId,
                  status |-> IF token = "" THEN 400 ELSE 200] >>
    /\ UNCHANGED <<online, convs, msgs, socks, tasks, chatLog, pushLog, clock>>

\* ------------------------------------------------------- inputs of clients
\* req.body.token of POST /fcm-token.
DeviceTokens == {"t1", ""}

\* Message bodies a client sends.
ChatContents == {Plain("hello"), EmptyText}

\* Message types a client sends.
ChatTypes == {"text", "image", "bogus"}

\* ObjectIds a client may name as a conversation: those the store may hold.
KnownConvRefs == {<<ConvIdOf[n]>> : n \in 1..MaxConvs}

\* Composite tokens "idA_idB" over the users.
PairTokens == {<<a, b>> : a \in Users, b \in Users}

\* roomId values of chat_message.
ChatRooms == KnownConvRefs \cup PairTokens \cup {<<Junk>>}

\* otherUserId values of join_private_chat.
JoinTargets == Users \cup {GhostId, Junk}

\* roomId values of the receipt events: a conversation, or any other
\* channel name such as a user's id.
ReceiptRooms == KnownConvRefs \cup {<<u>> : u \in Users} \cup {<<Junk>>}

\* messageId values of the receipt events.
MessageRefs == {MsgIdOf[n] : n \in 1..MaxMsgs} \cup {Junk}

\* ------------------------------------------------------------ the system
\* The steps of the handlers in flight.  With tied, two readings of the
\* clock may fall in one millisecond; without, every step that reads the
\* clock or drops a stamp ends in a later millisecond.
ChatSteps(tied) ==
    \/ \E t \in Slots : ChatFind(t) /\ (tied \/ Elapsed')
    \/ \E t \in Slots : ChatCreate(t) /\ (tied \/ Elapsed')
    \/ \E t \in Slots : ChatSave(t) /\ (tied \/ Elapsed')
    \/ \E t \in Slots : ChatUpdate(t) /\ (tied \/ Elapsed')
    \/ \E t \in Slots, i \in 1..2 : ChatPushFind(t, i)
    \/ \E t \in Slots, i \in 1..2, ok \in BOOLEAN : ChatPushSettle(t, i, ok)

JoinSteps(tied) ==
    \/ \E t \in Slots : JoinFind(t) /\ (tied \/ Elapsed')
    \/ \E t \in Slots : JoinCreate(t) /\ (tied \/ Elapsed')
    \/ \E t \in Slots : JoinHistory(t)

ReceiptSteps ==
    \/ \E t \in Slots : ReadUpdate(t)
    \/ \E t \in Slots : DeleteFind(t)
    \/ \E t \in Slots : DeleteSave(t)
    \/ \E t \in Slots : DeliveredFind(t)
    \/ \E t \in Slots : DeliveredSave(t)

SessionSteps ==
    \/ \E s \in Sockets, token \in ClientTokens : Connect(s, token)
    \/ \E s \in Sockets : OnlineWrite(s)
    \/ \E s \in Sockets : ConnectionReady(s)
    \/ \E s \in Sockets : ClientDisconnect(s)
    \/ \E s \in Sockets : DisconnectWrite(s)
    \/ \E s \in Sockets : DisconnectNotify(s)

Next ==
    \/ SessionSteps
    \/ \E s \in Sockets, c \in ChatContents, r \in ChatRooms, ty \in ChatTypes :
         ChatMessage(s, c, r, ty)
    \/ ChatSteps(TRUE)
    \/ \E s \in Sockets, o \in JoinTargets : JoinPrivateChat(s, o)
    \/ JoinSteps(TRUE)
    \/ \E s \in Sockets, r \in ReceiptRooms : ConversationRead(s, r)
    \/ \E s \in Sockets, m \in MessageRefs, r \in ReceiptRooms : MessageDelete(s, m, r)
    \/ \E s \in Sockets, m \in MessageRefs, r \in ReceiptRooms : MessageDelivered(s, m, r)
    \/ ReceiptSteps
    \/ \E u \in Users \cup {GhostId, Junk} : GetConversations(u)
    \/ \E t \in Slots : ListFind(t)
    \/ \E t \in Slots, k \in 1..MaxConvs : ListUser(t, k)
    \/ \E t \in Slots, k \in 1..MaxConvs : ListMessage(t, k)
    \/ \E u \in Users, token \in DeviceTokens : SaveFcmToken(u, token)

\* The whole system from the start of the server.
Spec == Init /\ [][Next]_vars

\* ----------------------------------------------- sessions and presence
\* The server from its start, with clients that connect, disconnect and
\* open private chats, one join_private_chat in flight at a time.
PresenceNext ==
    \/ SessionSteps
    \/ \E s \in Sockets, o \in Users : tasks = <<>> /\ JoinPrivateChat(s, o)
    \/ JoinSteps(FALSE)

PresenceSpec == Init /\ [][PresenceNext]_vars

\* -------------------------------------------- resolving a conversation
\* Two users are connected and their connection handlers have completed.
WarmUser == <<"u1", "u2">>

ReadySock(u) ==
    [phase |-> "ready", token |-> GoodToken(u), user |-> u, connected |-> TRUE,
     pendingOn |-> FALSE, disc |-> "none", rooms |-> {<<u>>}]

WarmSocks == [s \in Sockets |-> IF s \in DOMAIN WarmUser THEN ReadySock(WarmUser[s]) ELSE NoSock]
WarmOnline == [u \in Users |-> u \in RangeOf(WarmUser)]

WarmInit ==
    /\ online = WarmOnline
    /\ convs = <<>>
    /\ msgs = <<>>
    /\ socks = WarmSocks
    /\ tasks = <<>>
    /\ out = <<>>
    /\ chatLog = <<>>
    /\ pushLog = <<>>
    /\ fcm_tokens = RegisteredTokens
    /\ clock = Latest + 1

\* The composite tokens of the two connected users: either order of the
\* pair, and a token with equal halves.
ResolveTokens == {<<"u1", "u2">>, <<"u2", "u1">>, <<"u1", "u1">>}

\* The connected clients open chats, while the store has room for a
\* conversation, and the first sends text by composite token or by
\* conversation id while no message is stored, the handlers interleaving.
ResolveNext ==
    \/ \E r \in ResolveTokens \cup KnownConvRefs :
         /\ msgs = <<>>
         /\ ChatMessage(1, Plain("hello"), r, "text")
         /\ Elapsed'
    \/ ChatSteps(FALSE)
    \/ \E s \in Sockets, o \in Users :
         /\ Len(convs) + Cardinality(MayCreateConv) < MaxConvs
         /\ JoinPrivateChat(s, o)
    \/ JoinSteps(FALSE)

ResolveSpec == WarmInit /\ [][ResolveNext]_vars

\* The same clients, each event handled to its end before the next arrives.
SeqNext ==
    \/ \E s \in Sockets, r \in PairTokens \cup KnownConvRefs :
         tasks = <<>> /\ ChatMessage(s, Plain("hello"), r, "text") /\ Elapsed'
    \/ ChatSteps(FALSE)
    \/ \E s \in Sockets, o \in Users : tasks = <<>> /\ JoinPrivateChat(s, o)
    \/ JoinSteps(FALSE)

SeqSpec == WarmInit /\ [][SeqNext]_vars

\* ------------------------------------------------- the first-contact send
\* One user is connected, a second connection may exist for another user,
\* and the store holds no conversation.
ScenInit ==
    /\ convs = <<>>
    /\ msgs = <<>>
    /\ tasks = <<>>
    /\ out = <<>>
    /\ chatLog = <<>>
    /\ pushLog = <<>>
    /\ fcm_tokens = RegisteredTokens
    /\ \E a \in Users, c \in Users \cup {""} :
         /\ c # a
         /\ socks = [s \in Sockets |-> IF s = 1 THEN ReadySock(a)
                                       ELSE IF s = 2 /\ c # "" THEN ReadySock(c)
                                       ELSE NoSock]
         /\ online = [u \in Users |-> u \in {a, c}]
    /\ clock = Latest + 1

\* The sender of the scenario and the users it may address: those that are
\* offline and hold a push token.
ScenSender == socks[1].user
ScenRecipients == {b \in Users : b # ScenSender /\ ~online[b] /\ Len(FcmTokens(b)) > 0}

\* The sender sends "hello" by composite token while no conversation
\* exists; the handler then runs to its end.  Devices register before it.
ScenNext ==
    \/ \E b \in ScenRecipients, order \in BOOLEAN :
         /\ convs = <<>> /\ tasks = <<>>
         /\ ChatMessage(1, Plain("hello"),
                        IF order THEN <<ScenSender, b>> ELSE <<b, ScenSender>>, "text")
    \/ ChatSteps(TRUE)
    \/ \E u \in Users, token \in DeviceTokens :
         /\ convs = <<>> /\ tasks = <<>>
         /\ SaveFcmToken(u, token)

ScenSpec == ScenInit /\ [][ScenNext]_vars

\* ------------------------------------------------------ receipts, deletes
\* The store after k text messages were sent into one conversation, one
\* after the other: the conversation was stamped first, each message when
\* its save() was called and the conversation again after each save.
SentMessage(sender) ==
    [conversation_id |-> ConvIdOf[1], sender_id |-> sender,
     content |-> encrypt(Plain("hello"), "iv1"), type |-> "text",
     isDeleted |-> FALSE, status |-> "sent", createdAt |-> 0]

\* The sends were "apart", each in a millisecond of its own; or the last two
\* "overlapped", the save() called second executed first; or the last two
\* ("tiedLast") or the first two ("tiedFirst") called save() within one
\* millisecond, one after the other.
SentAt(docs, sends) ==
    LET n == Len(docs)
    IN [i \in DOMAIN docs |->
          [docs[i] EXCEPT !.createdAt =
              IF sends = "overlapped" /\ i = n - 1 THEN 2 * n - 1
              ELSE IF sends \in {"overlapped", "tiedLast"} /\ i = n THEN 2 * n - 2
              ELSE IF sends = "tiedFirst" /\ i = 2 THEN 2
              ELSE 2 * i]]

ReceiptInit ==
    /\ online = WarmOnline
    /\ socks = WarmSocks
    /\ tasks = <<>>
    /\ out = <<>>
    /\ chatLog = <<>>
    /\ pushLog = <<>>
    /\ fcm_tokens = RegisteredTokens
    /\ \E pair \in {<<"u1", "u2">>, <<"u1", "u3">>}, k \in 1..MaxMsgs :
         /\ \E docs \in [1..k -> {SentMessage(u) : u \in RangeOf(pair)}] :
              msgs = SentAt(docs, "apart")
         /\ convs = << [participants |-> pair,
                        last_message |-> encrypt(Plain("hello"), "iv1"),
                        updatedAt |-> 2 * k + 1] >>
    /\ clock = Latest + 1

\* The events the clients send name the stored conversation and messages.
StoredConvRefs == {<<ConvIdOf[n]>> : n \in 1..1}
StoredMsgRefs == {MsgIdOf[n] : n \in 1..MaxMsgs}

\* The connected clients acknowledge, read and delete messages, reopen
\* the chats they have and list conversations, their handlers interleaving.
ReceiptNext ==
    \/ \E s \in Sockets, r \in StoredConvRefs : ConversationRead(s, r)
    \/ \E s \in Sockets, m \in StoredMsgRefs, r \in StoredConvRefs : MessageDelete(s, m, r)
    \/ \E s \in Sockets, m \in StoredMsgRefs, r \in StoredConvRefs : MessageDelivered(s, m, r)
    \/ ReceiptSteps
    \/ \E s \in Sockets, o \in Users :
         /\ Listening(s) /\ MatchAll(<<socks[s].user, o>>) # {}
         /\ JoinPrivateChat(s, o)
    \/ \E t \in Slots : JoinFind(t)
    \/ \E t \in Slots : JoinHistory(t)
    \/ \E u \in {"u1", Junk} : GetConversations(u)
    \/ \E t \in Slots : ListFind(t)
    \/ \E t \in Slots, k \in 1..MaxConvs : ListUser(t, k)
    \/ \E t \in Slots, k \in 1..MaxConvs : ListMessage(t, k)

ReceiptSpec == ReceiptInit /\ [][ReceiptNext]_vars

\* ------------------------------------------------------------ sending
\* The connected clients send messages of any body (two texts and the
\* empty string), type and roomId into
\* a store that holds no conversation at first, until one message is
\* persisted; the users that are not connected stay offline, and the
\* first user's device registers between the handlers.
SendNext ==
    \/ \E s \in Sockets, c \in {Plain("hello"), Plain("bye"), EmptyText}, r \in ChatRooms, ty \in ChatTypes :
         /\ msgs = <<>> /\ MayCreateMsg = {}
         /\ ChatMessage(s, c, r, ty)
         /\ Elapsed'
    \/ ChatSteps(FALSE)
    \/ \E token \in DeviceTokens :
         /\ msgs = <<>> /\ tasks = <<>>
         /\ SaveFcmToken("u1", token)

SendSpec == ScenInit /\ [][SendNext]_vars

\* ------------------------------------------------- two sends, one sender
\* The sender sends two texts into one conversation, one after the other:
\* by a composite token toward an offline user with a push token while the
\* store is empty, then into the conversation that made, named by its
\* participants or by its id.
PairNext ==
    \/ \E c \in {Plain("hello"), Plain("bye")},
            r \in IF convs = <<>> THEN {<<ScenSender, b>> : b \in ScenRecipients}
                  ELSE {convs[1].participants, <<ConvIdOf[1]>>} :
         /\ tasks = <<>>
         /\ ChatMessage(1, c, r, "text")
    \/ ChatSteps(TRUE)
    \/ \E u \in Users, token \in DeviceTokens :
         /\ convs = <<>> /\ tasks = <<>>
         /\ SaveFcmToken(u, token)

PairSpec == ScenInit /\ [][PairNext]_vars

\* ------------------------------------------------------ reading receipts
\* The connected clients acknowledge the stored messages and mark as read
\* the stored conversation or another conversation id, their handlers
\* interleaving.
ReadNext ==
    \/ \E s \in Sockets, r \in KnownConvRefs : ConversationRead(s, r)
    \/ \E s \in Sockets, m \in StoredMsgRefs, r \in StoredConvRefs : MessageDelivered(s, m, r)
    \/ \E t \in Slots : ReadUpdate(t)
    \/ \E t \in Slots : DeliveredFind(t)
    \/ \E t \in Slots : DeliveredSave(t)

ReadSpec == ReceiptInit /\ [][ReadNext]_vars

\* ------------------------------------------- delivered, then read, by one user
\* The recipients of socket s among the stored messages.
ReceivedBy(s) ==
    {i \in DOMAIN msgs : /\ msgs[i].sender_id # socks[s].user
                          /\ socks[s].user \in RangeOf(convs[1].participants)}

\* A recipient emits message:delivered for a message it received, then
\* (once a handler of that event is in flight or a message it received has
\* left 'sent') conversation:read for the conversation, then
\* message:delivered again;
\* the server starts a handler per event as it arrives (socket.on), so the
\* handlers of one client interleave at their awaits.
AckNext ==
    \/ \E s \in Sockets, i \in 1..MaxMsgs :
         /\ i \in ReceivedBy(s)
         /\ MessageDelivered(s, MsgIdOf[i], <<ConvIdOf[1]>>)
    \/ \E s \in Sockets :
         /\ ReceivedBy(s) # {}
         /\ \/ \E t \in DOMAIN tasks : tasks[t].kind = "delivered" /\ tasks[t].sock = s
            \/ \E i \in ReceivedBy(s) : msgs[i].status # "sent"
         /\ ConversationRead(s, <<ConvIdOf[1]>>)
    \/ \E t \in Slots : ReadUpdate(t)
    \/ \E t \in Slots : DeliveredFind(t)
    \/ \E t \in Slots : DeliveredSave(t)

AckSpec == ReceiptInit /\ [][AckNext]_vars

\* ------------------------------------------------- history of a stored chat
\* Stored bodies: one written by this handler (encrypted), and three
\* written as sent by the chat_message handlers of server/index.js: "hello"
\* and "note:hello", which decrypt returns unchanged, the first for its
\* lack of ':' and the second because deciphering it throws, and a
\* ciphertext of "hello" after the hex of another iv, which decrypt
\* returns garbled when the garbled padding is valid and unchanged
\* otherwise.
HistoryInit ==
    /\ online = WarmOnline
    /\ socks = WarmSocks
    /\ tasks = <<>>
    /\ out = <<>>
    /\ chatLog = <<>>
    /\ pushLog = <<>>
    /\ fcm_tokens = RegisteredTokens
    /\ \E pair \in {<<"u1", "u2">>, <<"u1", "u3">>}, k \in 1..MaxMsgs :
         /\ \E docs \in [1..k -> {[SentMessage(u) EXCEPT !.content = c] :
                                     u \in RangeOf(pair),
                                     c \in {encrypt(Plain("hello"), "iv1"), Plain("hello"),
                                            << <<"note">>, <<"hello">> >>,
                                            << <<"hex", "iv2">>, encrypt(Plain("hello"), "iv1")[2] >>}}] :
              msgs = SentAt(docs, "apart")
         /\ convs = << [participants |-> pair,
                        last_message |-> msgs[k].content,
                        updatedAt |-> 2 * k + 1] >>
    /\ clock = Latest + 1

\* The connected clients delete stored messages and reopen the chats they
\* have, their handlers interleaving.
HistoryNext ==
    \/ \E s \in Sockets, m \in StoredMsgRefs, r \in StoredConvRefs : MessageDelete(s, m, r)
    \/ \E t \in Slots : DeleteFind(t)
    \/ \E t \in Slots : DeleteSave(t)
    \/ \E s \in Sockets, o \in Users :
         /\ Listening(s) /\ MatchAll(<<socks[s].user, o>>) # {}
         /\ JoinPrivateChat(s, o)
    \/ \E t \in Slots : JoinFind(t)
    \/ \E t \in Slots : JoinHistory(t)

HistorySpec == HistoryInit /\ [][HistoryNext]_vars

\* ------------------------------------------------ whom a conversation joins
\* The connected clients open chats toward any id and send text by any
\* composite token whose halves are ObjectIds, of users or of no user, or
\* by conversation id, each event handled to its end before the next
\* arrives.
IdentNext ==
    \/ \E s \in Sockets, r \in {<<a, b>> : a, b \in Users \cup {GhostId}} \cup KnownConvRefs :
         tasks = <<>> /\ ChatMessage(s, Plain("hello"), r, "text") /\ Elapsed'
    \/ ChatSteps(FALSE)
    \/ \E s \in Sockets, o \in JoinTargets : tasks = <<>> /\ JoinPrivateChat(s, o)
    \/ JoinSteps(FALSE)

IdentSpec == WarmInit /\ [][IdentNext]_vars

\* ------------------------------------------------------ text and media sends
\* The URL of an uploaded file, "https://cdn/a.png", as a message body.
MediaUrl == << <<"https">>, <<"//cdn/a.png">> >>

\* The connected clients send a text or a URL as text, image or audio, by
\* composite token or by conversation id, until one message is persisted.
MediaNext ==
    \/ \E s \in Sockets, c \in {Plain("hello"), MediaUrl}, r \in PairTokens \cup KnownConvRefs,
          ty \in MessageTypes :
         /\ msgs = <<>> /\ MayCreateMsg = {}
         /\ ChatMessage(s, c, r, ty)
    \/ ChatSteps(TRUE)

MediaSpec == ScenInit /\ [][MediaNext]_vars

\* ------------------------------------------------ bodies sent and read back
\* The first client sends text (a word, a text with ':', or a text cut in
\* the middle of an emoji, its last code unit the first half of a surrogate
\* pair) by a composite token of the connected pair or by conversation id,
\* and both open chats, each event handled to its end before the next
\* arrives.
RoundTripNext ==
    \/ \E c \in {Plain("hello"), MediaUrl, << <<"hi", LoneSurrogate>> >>}, r \in ResolveTokens \cup KnownConvRefs :
         tasks = <<>> /\ ChatMessage(1, c, r, "text") /\ Elapsed'
    \/ ChatSteps(FALSE)
    \/ \E s \in Sockets, o \in Users : tasks = <<>> /\ JoinPrivateChat(s, o)
    \/ JoinSteps(FALSE)

RoundTripSpec == WarmInit /\ [][RoundTripNext]_vars

\* ------------------------------------------------------- a long conversation
\* The store after up to MaxStored messages were sent into the conversation
\* of u1 and u2, by the two in turn, each save() called after the one
\* before it.
MaxStored == HistoryLimit + 3

LongInit ==
    /\ online = WarmOnline
    /\ socks = WarmSocks
    /\ tasks = <<>>
    /\ out = <<>>
    /\ chatLog = <<>>
    /\ pushLog = <<>>
    /\ fcm_tokens = RegisteredTokens
    /\ \E n \in 0..MaxStored, sends \in {"apart", "overlapped", "tiedLast", "tiedFirst"} :
         /\ sends # "apart" => n \in {2} \cup (HistoryLimit - 1)..MaxStored
         /\ msgs = SentAt([i \in 1..n |-> SentMessage(IF i % 2 = 1 THEN "u1" ELSE "u2")],
                           sends)
         /\ convs = << [participants |-> <<"u1", "u2">>,
                        last_message |-> IF n = 0 THEN StartJoin
                                        ELSE encrypt(Plain("hello"), "iv1"),
                        updatedAt |-> 2 * n + 1] >>
    /\ clock = Latest + 1

\* The connected clients reopen the chat they have and open chats with the
\* third user.
LongNext ==
    \/ \E s \in Sockets, o \in Users :
         /\ Listening(s) /\ o # socks[s].user
         /\ JoinPrivateChat(s, o)
    \/ JoinSteps(FALSE)

LongSpec == LongInit /\ [][LongNext]_vars

\* ------------------------------------------------- two sends of one session
\* u1 is connected; the store holds no message, and either no conversation
\* or the conversation of u1 and u3.
OrderInit ==
    /\ online = WarmOnline
    /\ socks = WarmSocks
    /\ msgs = <<>>
    /\ tasks = <<>>
    /\ out = <<>>
    /\ chatLog = <<>>
    /\ pushLog = <<>>
    /\ fcm_tokens = RegisteredTokens
    /\ convs \in {<<>>, << [participants |-> <<"u1", "u3">>,
                             last_message |-> StartJoin, updatedAt |-> 1] >>}
    /\ clock = Latest + 1

\* The bodies of the first and of the second event.
FirstBody == Plain("hello")
SecondBody == Plain("bye")

\* The session has emitted the event with this body.
Emitted(body) ==
    \/ \E t \in DOMAIN tasks : tasks[t].kind = "chat" /\ tasks[t].content = body
    \/ \E i \in DOMAIN msgs : decrypt(msgs[i].content, {}) = body

\* roomId values the session may use: the composite token in either order
\* and the ids of the stored conversations of u1 and u3.
OrderRooms ==
    {<<"u1", "u3">>, <<"u3", "u1">>} \cup {<<ConvIdOf[n]>> : n \in MatchAll(<<"u1", "u3">>)}

\* The session of u1 emits chat_message "hello" and then chat_message
\* "bye"; the server starts a handler per event as it arrives.
OrderNext ==
    \/ \E r \in OrderRooms :
         /\ ~Emitted(FirstBody)
         /\ ChatMessage(1, FirstBody, r, "text")
    \/ \E r \in OrderRooms :
         /\ Emitted(FirstBody) /\ ~Emitted(SecondBody)
         /\ ChatMessage(1, SecondBody, r, "text")
    \/ ChatSteps(TRUE)

OrderSpec == OrderInit /\ [][OrderNext]_vars

\* --------------------------------------------- events that name no record
\* The connected clients emit events whose ids resolve to nothing: a
\* message id that is unknown or malformed, a malformed conversation id for
\* conversation:read, and a well-formed conversation id of no Conversation
\* for chat_message (the last ids of MsgIdOf and ConvIdOf are never stored).
StrayNext ==
    \/ \E s \in Sockets, m \in {MsgIdOf[Len(MsgIdOf)], Junk} :
         MessageDelivered(s, m, <<ConvIdOf[1]>>)
    \/ \E s \in Sockets, m \in {MsgIdOf[Len(MsgIdOf)], Junk} :
         MessageDelete(s, m, <<ConvIdOf[1]>>)
    \/ \E s \in Sockets : ConversationRead(s, <<Junk>>)
    \/ \E s \in Sockets, c \in ChatContents :
         ChatMessage(s, c, <<ConvIdOf[Len(ConvIdOf)]>>, "text")
    \/ \E t \in Slots : DeliveredFind(t)
    \/ \E t \in Slots : DeleteFind(t)
    \/ \E t \in Slots : ChatSave(t)
    \/ \E t \in Slots : ChatUpdate(t)

StraySpec == ReceiptInit /\ [][StrayNext]_vars

\* ---------------------------------------------------------- admission
\* The server starts on a store that holds the conversations made earlier:
\* none, one, or two that share a user.
AdmitInit ==
    /\ online = [u \in Users |-> FALSE]
    /\ msgs = <<>>
    /\ socks = [s \in Sockets |-> NoSock]
    /\ tasks = <<>>
    /\ out = <<>>
    /\ chatLog = <<>>
    /\ pushLog = <<>>
    /\ fcm_tokens = RegisteredTokens
    /\ \E k \in 0..MaxConvs :
         convs = SubSeq(<< [participants |-> <<"u1", "u2">>,
                            last_message |-> StartJoin, updatedAt |-> 1],
                          [participants |-> <<"u3", "u1">>,
                            last_message |-> StartChat, updatedAt |-> 2] >>, 1,
                        IF k < 2 THEN k ELSE 2)
    /\ clock = Latest + 1

\* Clients connect and disconnect, and the admitted ones reopen the chats
\* they have, one join_private_chat in flight at a time.
AdmitNext ==
    \/ SessionSteps
    \/ \E s \in Sockets, o \in Users :
         /\ tasks = <<>> /\ Listening(s) /\ MatchAll(<<socks[s].user, o>>) # {}
         /\ JoinPrivateChat(s, o)
    \/ \E t \in Slots : JoinFind(t)
    \/ \E t \in Slots : JoinHistory(t)

\* The store answers every operation it was sent: the un-awaited is_online
\* write is executed and the partners lookup of the connection handler
\* resolves.
AdmitFairness ==
    \A s \in Sockets : WF_vars(OnlineWrite(s)) /\ WF_vars(ConnectionReady(s))

AdmitSpec == AdmitInit /\ [][AdmitNext]_vars /\ AdmitFairness

\* ------------------------------------------------- the life of a message
\* roomId values of the receipt events in this scenario: a conversation or
\* the personal channel of a user.
LifeRooms == KnownConvRefs \cup {<<"u1">>}

\* The first client sends text by the tokens "u1_u2" and "u1_u3" or by
\* conversation id; both open the chat with each other and acknowledge,
\* read and delete messages with any roomId, each event handled to its end
\* before the next arrives.
LifeNext ==
    \/ \E r \in {<<"u1", "u2">>, <<"u1", "u3">>} \cup KnownConvRefs :
         tasks = <<>> /\ ChatMessage(1, Plain("hello"), r, "text") /\ Elapsed'
    \/ ChatSteps(FALSE)
    \/ \E s \in Sockets, o \in RangeOf(WarmUser) :
         tasks = <<>> /\ o # socks[s].user /\ JoinPrivateChat(s, o)
    \/ JoinSteps(FALSE)
    \/ \E s \in Sockets, r \in LifeRooms : tasks = <<>> /\ ConversationRead(s, r)
    \/ \E s \in Sockets, m \in StoredMsgRefs, r \in LifeRooms :
         tasks = <<>> /\ MessageDelete(s, m, r)
    \/ \E s \in Sockets, m \in StoredMsgRefs, r \in LifeRooms :
         tasks = <<>> /\ MessageDelivered(s, m, r)
    \/ ReceiptSteps

LifeSpec == WarmInit /\ [][LifeNext]_vars

\* ------------------------------------------------ history after a send
\* The connected clients open chats, these handlers interleaving with each
\* other, and the first sends text by a composite token of the connected
\* pair or by the id of a stored conversation, a send starting when no
\* handler is in flight and a join when no send is.
LaterJoinNext ==
    \/ \E r \in ResolveTokens \cup KnownConvRefs :
         /\ tasks = <<>>
         /\ IsValidObjectId(r) => ConvIndex(r[1]) # 0
         /\ ChatMessage(1, Plain("hello"), r, "text")
         /\ Elapsed'
    \/ ChatSteps(FALSE)
    \/ \E s \in Sockets, o \in Users :
         /\ \A t \in DOMAIN tasks : tasks[t].kind = "join"
         /\ JoinPrivateChat(s, o)
    \/ JoinSteps(FALSE)

LaterJoinSpec == WarmInit /\ [][LaterJoinNext]_vars

\* ------------------------------------------------- events after admission
\* Clients connect and disconnect and send events from the moment their
\* connection is accepted; the admitted ones reopen the chats they have.
EarlyNext ==
    \/ AdmitNext
    \/ \E s \in Sockets,
            name \in {"chat_message", "join_private_chat", "conversation:read",
                      "message:delivered", "message:delete"} :
         EventBeforeListeners(s, name)

EarlySpec == AdmitInit /\ [][EarlyNext]_vars

\* ------------------------------------------------------------ C1
PairOf(n) == RangeOf(convs[n].participants)

\* C1: no two Conversations hold the same pair of users, also when two
\* first-contact events of the pair both look up before either creates.
C1_OneConversationPerPair ==
    \A n \in DOMAIN convs, m \in DOMAIN convs :
        (n # m /\ Cardinality(PairOf(n)) = 2) => PairOf(n) # PairOf(m)

\* ------------------------------------------------------------ C2
StatusRank(status) == CASE status = "sent" -> 0 [] status = "delivered" -> 1 [] OTHER -> 2

\* C2: no step lowers the stored status of a message (read stays read,
\* delivered never goes back to sent), whatever the interleaving of the
\* message:delivered and conversation:read handlers.
C2_StatusNeverRegresses ==
    [][\A i \in DOMAIN msgs : StatusRank(msgs'[i].status) >= StatusRank(msgs[i].status)]_vars

\* ------------------------------------------------------------ C3
\* C3: a step sets a message's soft-delete flag only as the save of a
\* message:delete handler running for the message's sender, and a
\* message:deleted event is emitted only by such a handler; a
\* message:delete of any other user changes no message and emits nothing.
C3_OnlySenderDeletes ==
    [][/\ \A i \in DOMAIN msgs :
            (msgs'[i].isDeleted /\ ~msgs[i].isDeleted) =>
                \E t \in DOMAIN tasks :
                    /\ Running(t, "delete", "save")
                    /\ tasks[t].msg = MsgIdOf[i]
                    /\ UserOf(t) = msgs[i].sender_id
       /\ \A k \in DOMAIN out' :
            out'[k].ev = "message:deleted" =>
                /\ MsgIndex(out'[k].messageId) # 0
                /\ out'[k].by = msgs[MsgIndex(out'[k].messageId)].sender_id
       /\ \A t \in DOMAIN tasks :
            (tasks[t].kind = "delete" /\ MsgIndex(tasks[t].msg) # 0
                /\ UserOf(t) # msgs[MsgIndex(tasks[t].msg)].sender_id
                /\ tasks' = Finish(t))
            => (msgs' = msgs /\ out' = <<>>)
      ]_vars

\* A message:delete of a user who did not send the message is in flight,
\* and the message is not deleted.
C3_Witness ==
    \E t \in DOMAIN tasks :
        /\ Running(t, "delete", "find")
        /\ MsgIndex(tasks[t].msg) # 0
        /\ UserOf(t) # msgs[MsgIndex(tasks[t].msg)].sender_id
        /\ ~msgs[MsgIndex(tasks[t].msg)].isDeleted
        /\ UserOf(t) \notin PairOf(1)

\* ------------------------------------------------------------ C4
\* C4: whatever the server returns about a soft-deleted message (the
\* history of join_private_chat, the preview of getConversations) holds
\* the fixed placeholder, never the stored content or its plaintext.
C4_DeletedContentHidden ==
    \A k \in DOMAIN out :
        /\ out[k].ev = "private_chat_ready" =>
             \A h \in DOMAIN out[k].history :
                 LET entry == out[k].history[h]
                     m == msgs[MsgIndex(entry._id)]
                 IN m.isDeleted =>
                      /\ entry.content = DeletedPlaceholder
                      /\ entry.content \notin {m.content, decrypt(m.content, {})}
        /\ out[k].ev = "conversations" =>
             \A j \in DOMAIN out[k].list : \A i \in LastMsgIndex(out[k].list[j].id) :
                 (i # 0 /\ msgs[i].isDeleted) =>
                   /\ out[k].list[j].lastMessage = DeletedPlaceholder
                   /\ out[k].list[j].lastMessage
                        \notin {msgs[i].content, decrypt(msgs[i].content, {})}

\* ------------------------------------------------------------ C5
Events(name) == {i \in DOMAIN out : out[i].ev = name}

SharesConversation(a, b) ==
    \E n \in DOMAIN convs : a \in RangeOf(convs[n].participants) /\ b \in RangeOf(convs[n].participants)

\* C5: every user_status_change about a user U goes to the personal
\* channel of one other user who shares a Conversation with U when it is
\* emitted; none goes to an unrelated user or to everyone.
C5_PresenceOnlyToPartners ==
    \A i \in Events("user_status_change") :
        /\ Len(out[i].to) = 1
        /\ out[i].to[1] # out[i].userId
        /\ SharesConversation(out[i].userId, out[i].to[1])

\* A presence event is emitted while some user shares no conversation with
\* its subject.
C5_Witness ==
    \E i \in Events("user_status_change") :
        \E u \in Users : u # out[i].userId /\ ~SharesConversation(out[i].userId, u)

\* ------------------------------------------------------------ C6
Admitted(s) == socks[s].phase \in {"awaiting", "ready"}
ActiveSessions(u) == {s \in Sockets : Admitted(s) /\ socks[s].user = u /\ socks[s].connected}
OnlineWritePending(u) ==
    \E s \in Sockets : socks[s].user = u /\ (socks[s].pendingOn \/ socks[s].disc = "write")

\* C6: whenever no write of a user's online flag is pending, the stored
\* flag is true exactly if the user has an admitted session that has not
\* disconnected.
C6_OnlineIffActiveSession ==
    \A u \in Users : ~OnlineWritePending(u) => (online[u] <=> ActiveSessions(u) # {})

\* ------------------------------------------------------------ C7
\* Nothing is left to run for the connection of socket s.
SessionQuiet(s) ==
    /\ socks[s].phase = "ready"
    /\ ~socks[s].pendingOn
    /\ socks[s].disc \notin {"write", "partners"}

\* C7: a disconnected admitted session is released (flag written false,
\* offline events emitted): once nothing is left to run for it, its
\* disconnect handler has completed.
C7_DisconnectReleases ==
    \A s \in Sockets :
        (Admitted(s) /\ ~socks[s].connected /\ SessionQuiet(s)) => socks[s].disc = "done"

\* ------------------------------------------------------------ C8
Unverified(s) == socks[s].phase # "new" /\ ~(socks[s].token.present /\ socks[s].token.valid)

\* C8: a connection without a token, or with one that fails verification,
\* is rejected before admission: it has no identity, is in no channel, no
\* handler runs for it, no online-flag write is issued for it and no
\* presence event is emitted for it.
C8_UnverifiedRejected ==
    \A s \in Sockets : Unverified(s) =>
        /\ socks[s].phase = "rejected"
        /\ socks[s].user = ""
        /\ ~socks[s].connected
        /\ socks[s].rooms = {}
        /\ ~socks[s].pendingOn /\ socks[s].disc = "none"
        /\ \A t \in DOMAIN tasks : tasks[t].sock # s
        /\ \A i \in Events("user_status_change") : out[i].sock # s

\* A socket that presented a token was rejected, beside an admitted
\* session.
C8_Witness ==
    /\ \E s \in Sockets : socks[s].phase = "rejected" /\ socks[s].token.present
    /\ \E s \in Sockets : Listening(s)

\* ------------------------------------------------------------ C9
\* The conversations whose participants are exactly the two users.
ConvsOfPair(a, b) == {n \in DOMAIN convs : PairOf(n) = {a, b}}

\* C9: handled one after the other, every join_private_chat between two
\* distinct users, from either side, returns the id of the one
\* Conversation of the pair (conversations are never removed nor their
\* participants changed, so the id is the same every time).
C9_ResolveIdempotentSymmetric ==
    \A k \in Events("private_chat_ready") :
        (out[k].by # out[k].other /\ out[k].other \in Users) =>
            /\ Cardinality(ConvsOfPair(out[k].by, out[k].other)) = 1
            /\ \A n \in ConvsOfPair(out[k].by, out[k].other) : out[k].roomId = <<ConvIdOf[n]>>
            /\ \A n \in DOMAIN convs, m \in DOMAIN convs :
                 (n # m /\ Cardinality(PairOf(n)) = 2) => PairOf(n) # PairOf(m)

\* A join is answered with the conversation the other side created.
C9_Witness ==
    \E k \in Events("private_chat_ready") :
        /\ out[k].by # out[k].other
        /\ \E n \in ConvsOfPair(out[k].by, out[k].other) :
             convs[n].participants = <<out[k].other, out[k].by>>

\* ------------------------------------------------------------ C10
Contains(text, word) == \E p \in DOMAIN text : \E j \in DOMAIN text[p] : text[p][j] = word
ChatEventsTo(u) == {k \in DOMAIN chatLog : chatLog[k].to = <<u>>}

\* The send of the scenario has been handled to its end.
ScenDone == tasks = <<>> /\ convs # <<>>

\* C10: after the first-contact send of "hello" to an offline user with a
\* push token, there is one Conversation of the pair, one Message with
\* status sent, one chat_message event with content "hello" on the
\* channel of each of the two, and one push call, without "hello".
C10_FirstContactSend ==
    ScenDone =>
        /\ Len(convs) = 1
        /\ Cardinality(PairOf(1)) = 2 /\ ScenSender \in PairOf(1)
        /\ Len(msgs) = 1
        /\ msgs[1].status = "sent" /\ msgs[1].sender_id = ScenSender
        /\ msgs[1].conversation_id = ConvIdOf[1]
        /\ Len(chatLog) = 2
        /\ \A u \in PairOf(1) :
             /\ Cardinality(ChatEventsTo(u)) = 1
             /\ \A k \in ChatEventsTo(u) :
                  /\ chatLog[k].payload.content = Plain("hello")
                  /\ chatLog[k].payload._id = MsgIdOf[1]
        /\ Len(pushLog) = 1
        /\ pushLog[1].to \in PairOf(1) \ {ScenSender}
        /\ pushLog[1].call.tokens = FcmTokens(pushLog[1].to)
        /\ ~Contains(pushLog[1].call.body, "hello")

\* The scenario ran to its end, the push call having been made.
C10_Witness == ScenDone /\ Len(pushLog) = 1 /\ Len(chatLog) = 2

\* ------------------------------------------------------------ C11
\* The handler that persisted message i is past its fan-out.
FannedOut(i) ==
    \A t \in DOMAIN tasks : ~(Running(t, "chat", "update") /\ tasks[t].msg = MsgIdOf[i])

\* The participants of the conversation a message names, if it exists.
ParticipantsOf(i) ==
    IF ConvIndex(msgs[i].conversation_id) = 0 THEN {}
    ELSE PairOf(ConvIndex(msgs[i].conversation_id))

\* The chat_message events of message i emitted to the channel of u.
ChatEventsOf(i, u) ==
    {k \in DOMAIN chatLog : chatLog[k].payload._id = MsgIdOf[i] /\ chatLog[k].to = <<u>>}

\* C11: for every persisted message whose handler is past its fan-out,
\* one chat_message event went to the personal channel of each participant
\* of its conversation and one to the sender's (the echo), and each event
\* carries the plaintext body, not the stored ciphertext.
C11_FanOutOncePerParticipant ==
    \A i \in DOMAIN msgs : FannedOut(i) =>
        /\ \A u \in ParticipantsOf(i) \cup {msgs[i].sender_id} :
              Cardinality(ChatEventsOf(i, u)) = 1
        /\ \A k \in DOMAIN chatLog : chatLog[k].payload._id = MsgIdOf[i] =>
              /\ chatLog[k].payload.content = decrypt(msgs[i].content, {})
              /\ chatLog[k].payload.content # msgs[i].content

\* ------------------------------------------------------------ C12
\* The handler that persisted message i has ended, callbacks included.
HandlerDone(i) == \A t \in DOMAIN tasks : tasks[t].msg # MsgIdOf[i]

\* The push calls made for message i toward user u.
PushCallsOf(i, u) ==
    {k \in DOMAIN pushLog : pushLog[k].msg = MsgIdOf[i] /\ pushLog[k].to = u}

\* The participants a message is to be pushed to: not the sender, flagged
\* offline, holding a push token.
PushDue(i) ==
    {u \in ParticipantsOf(i) \ {msgs[i].sender_id} :
        u \in Users /\ ~online[u] /\ Len(FcmTokens(u)) > 0}

\* C12: every push call is for a participant other than the sender who is
\* offline and holds a token, and once the handler of a message has ended
\* exactly one call was made for each such participant.
C12_PushOncePerOfflineRecipient ==
    /\ \A k \in DOMAIN pushLog :
          /\ MsgIndex(pushLog[k].msg) # 0
          /\ pushLog[k].to \in PushDue(MsgIndex(pushLog[k].msg))
    /\ \A i \in DOMAIN msgs : HandlerDone(i) =>
          \A u \in PushDue(i) : Cardinality(PushCallsOf(i, u)) = 1
    /\ \A i \in DOMAIN msgs, u \in Users : Cardinality(PushCallsOf(i, u)) <= 1

\* ------------------------------------------------------------ C13
\* The plaintext body of the message a push call was made for.
PushedText(k) == decrypt(msgs[MsgIndex(pushLog[k].msg)].content, {})

\* C13: the push calls of two sends of one sender into one conversation
\* toward one recipient are the same call (tokens, title, body, data),
\* whatever the two message bodies.
C13_PushIndependentOfBody ==
    \A j \in DOMAIN pushLog, k \in DOMAIN pushLog :
        (/\ pushLog[j].to = pushLog[k].to
         /\ pushLog[j].call.senderId = pushLog[k].call.senderId
         /\ pushLog[j].call.roomId = pushLog[k].call.roomId)
        => pushLog[j].call = pushLog[k].call

\* Two push calls were made for messages of different bodies.
C13_Witness ==
    \E j \in DOMAIN pushLog, k \in DOMAIN pushLog :
        /\ j # k
        /\ pushLog[j].to = pushLog[k].to
        /\ PushedText(j) # PushedText(k)

\* ------------------------------------------------------------ C14
\* The push calls made for message i, and the callbacks that may make one:
\* one per entry of the participants array that is not the sender.
PushCallsFor(i) == {k \in DOMAIN pushLog : pushLog[k].msg = MsgIdOf[i]}
PushCallbacks(i) ==
    IF ConvIndex(msgs[i].conversation_id) = 0 THEN 0
    ELSE Len(SelectSeq(convs[ConvIndex(msgs[i].conversation_id)].participants,
                       LAMBDA p : p # msgs[i].sender_id))

\* No message has more push calls than callbacks.
PushCallsBounded == \A i \in DOMAIN msgs : Cardinality(PushCallsFor(i)) <= PushCallbacks(i)

\* The preview the send of message i left in its conversation.
PreviewOf(i) == IF msgs[i].type = "image" THEN ImageLabel ELSE msgs[i].content

\* The step is the rejection of a push call.
PushFailed == \E k \in DOMAIN out' : out'[k].ev = "fcm_settled" /\ ~out'[k].ok

\* C14: the step in which a push call is rejected changes neither the
\* store nor the sessions and makes no further call; the message of the
\* call is stored with status sent, its conversation's preview is the
\* one the send wrote, and its chat_message events went to every
\* participant.  No message ever has more push calls than callbacks.
C14_PushFailureHarmless ==
    [][/\ PushFailed =>
            /\ UNCHANGED <<msgs, convs, socks, online, chatLog, pushLog, fcm_tokens>>
            /\ \A k \in DOMAIN out' :
                 LET i == MsgIndex(out'[k].msg)
                 IN /\ i # 0
                    /\ msgs[i].status = "sent"
                    /\ ConvIndex(msgs[i].conversation_id) # 0
                    /\ convs[ConvIndex(msgs[i].conversation_id)].last_message = PreviewOf(i)
                    /\ \A u \in ParticipantsOf(i) : ChatEventsOf(i, u) # {}
       /\ PushCallsBounded'
      ]_vars

\* A push call was made and rejected.
C14_Witness ==
    /\ \E k \in DOMAIN out : out[k].ev = "fcm_settled" /\ ~out[k].ok
    /\ pushLog # <<>>

\* ------------------------------------------------------------ C15
\* The handler t runs for a chat_message with an empty text body or with
\* a type that is none of text, image, audio.
InvalidSend(t) ==
    /\ tasks[t].kind = "chat"
    /\ \/ tasks[t].type = "text" /\ tasks[t].content = EmptyText
       \/ tasks[t].type \notin MessageTypes

\* C15: no step of the handler of such a chat_message changes the store,
\* the sessions or the logs of emitted events and push calls, and it
\* emits nothing.
C15_InvalidSendNoChange ==
    [][\A t \in DOMAIN tasks :
          (InvalidSend(t) /\ (ChatFind(t) \/ ChatCreate(t) \/ ChatSave(t) \/ ChatUpdate(t)))
          => (UNCHANGED <<convs, msgs, socks, online, chatLog, pushLog, fcm_tokens>> /\ out' = <<>>)
      ]_vars

\* ------------------------------------------------------------ C16
\* The message a receipt handler names, 0 if the store holds none.
MsgOf(t) == MsgIndex(tasks[t].msg)

\* C16: a message:delivered handler writes and emits only on a message
\* whose stored status is sent when it is written, which it moves to
\* delivered with one message:status_update; on a message that is
\* delivered or read it ends without a write and without an event.
C16_DeliveredOnlyFromSent ==
    [][\A t \in DOMAIN tasks :
          /\ (Running(t, "delivered", "save") /\ DeliveredSave(t)) =>
                /\ msgs[MsgOf(t)].status = "sent"
                /\ msgs'[MsgOf(t)].status = "delivered"
                /\ Len(out') = 1
          /\ (Running(t, "delivered", "find") /\ DeliveredFind(t)
                /\ MsgOf(t) # 0 /\ msgs[MsgOf(t)].status # "sent") =>
                (msgs' = msgs /\ out' = <<>> /\ tasks' = Finish(t))
      ]_vars

\* ------------------------------------------------------------ C17
\* The acknowledgement a conversation:read handler emits.
ReadAck(t) ==
    [ev |-> "conversation:read_ack", to |-> tasks[t].room,
     roomId |-> tasks[t].room, readerId |-> UserOf(t)]

\* C17: when a conversation:read handler completes, every message of the
\* conversation it names that its user did not send has status read,
\* whether it was sent or delivered before, and the one event emitted is
\* the read_ack with the conversation's id and the reader's id.
C17_ReadMarksCounterpart ==
    [][\A t \in DOMAIN tasks :
          (Running(t, "read", "update") /\ ReadUpdate(t)) =>
              /\ \A i \in DOMAIN msgs :
                    (msgs[i].conversation_id = tasks[t].room[1]
                        /\ msgs[i].sender_id # UserOf(t))
                    => msgs'[i].status = "read"
              /\ out' = << ReadAck(t) >>
      ]_vars

\* A conversation:read is in flight on a conversation that holds a
\* delivered message of another user.
C17_Witness ==
    \E t \in DOMAIN tasks, i \in DOMAIN msgs :
        /\ Running(t, "read", "update")
        /\ msgs[i].conversation_id = tasks[t].room[1]
        /\ msgs[i].sender_id # UserOf(t)
        /\ msgs[i].status = "delivered"

\* ------------------------------------------------------------ C18
\* C18: a conversation:read handler leaves as they are the messages its
\* user sent and the messages of every conversation but the one it names.
C18_ReadFrame ==
    [][\A t \in DOMAIN tasks :
          (Running(t, "read", "update") /\ ReadUpdate(t)) =>
              \A i \in DOMAIN msgs :
                  (msgs[i].sender_id = UserOf(t)
                      \/ msgs[i].conversation_id # tasks[t].room[1])
                  => msgs'[i] = msgs[i]
      ]_vars

\* A conversation:read is in flight on a conversation that holds an
\* unread message of the reader and one of the other user.
C18_Witness ==
    \E t \in DOMAIN tasks, i \in DOMAIN msgs, j \in DOMAIN msgs :
        /\ Running(t, "read", "update")
        /\ msgs[i].conversation_id = tasks[t].room[1]
        /\ msgs[j].conversation_id = tasks[t].room[1]
        /\ msgs[i].sender_id = UserOf(t) /\ msgs[i].status # "read"
        /\ msgs[j].sender_id # UserOf(t) /\ msgs[j].status # "read"

\* ------------------------------------------------------------ C19
\* C19: for a message from A to B, once B has emitted message:delivered and
\* then conversation:read, the conversation:read handler leaves the stored
\* status at read, the status stays read from then on, and a
\* message:delivered handler that finds the message read ends without a
\* write and without an event.
C19_DeliveredThenRead ==
    [][\A i \in DOMAIN msgs :
         /\ \A t \in DOMAIN tasks :
              (/\ Running(t, "read", "update") /\ ReadUpdate(t)
               /\ tasks[t].room[1] = msgs[i].conversation_id
               /\ UserOf(t) # msgs[i].sender_id)
              => msgs'[i].status = "read"
         /\ msgs[i].status = "read" => msgs'[i].status = "read"
         /\ \A t \in DOMAIN tasks :
              (/\ Running(t, "delivered", "find") /\ DeliveredFind(t)
               /\ MsgOf(t) = i /\ msgs[i].status = "read")
              => /\ tasks' = Finish(t) /\ msgs' = msgs /\ out' = <<>>]_vars

\* ------------------------------------------------------------ C20
\* C20: in every history sent by join_private_chat, an entry whose
\* isDeleted flag is true has the placeholder as its content, whether its
\* stored content deciphers or not.
C20_DeletedShownAsPlaceholder ==
    \A e \in Events("private_chat_ready") :
        \A k \in DOMAIN out[e].history :
            out[e].history[k].isDeleted
            => out[e].history[k].content = DeletedPlaceholder

\* A history is sent that holds a deleted message whose stored content
\* deciphers and a deleted message whose stored content fails to decipher.
C20_Witness ==
    \E e \in Events("private_chat_ready") :
        \E j, k \in DOMAIN out[e].history :
            LET a == msgs[MsgIndex(out[e].history[j]._id)]
                b == msgs[MsgIndex(out[e].history[k]._id)]
            IN /\ out[e].history[j].isDeleted /\ out[e].history[k].isDeleted
               /\ decrypt(a.content, {}) # a.content
               /\ Len(b.content) >= 2 /\ decrypt(b.content, {}) = b.content

\* ------------------------------------------------------------ C21
\* C21: every Conversation has exactly two participants, distinct, each a
\* known user; a join toward the caller's own id or an unknown id, and a
\* send by a composite token with equal halves or an unknown half, create
\* no Conversation.
C21_TwoKnownParticipants ==
    \A n \in DOMAIN convs :
        /\ Len(convs[n].participants) = 2
        /\ convs[n].participants[1] # convs[n].participants[2]
        /\ RangeOf(convs[n].participants) \subseteq Users

\* ------------------------------------------------------------ C22
\* The handlers that have persisted their message and not yet fanned it out.
JustSaved == {t \in DOMAIN tasks : tasks[t].kind = "chat" /\ tasks[t].pc = "update"}

\* C22: a persisted Message of type image or audio holds the string the
\* client supplied, and a persisted Message of type text holds the codec
\* output of the supplied text.
C22_CodecOnTextOnly ==
    \A t \in JustSaved :
        LET m == msgs[MsgOf(t)]
        IN /\ m.type \in {"image", "audio"} => m.content = tasks[t].content
           /\ m.type = "text" => /\ m.content \in {encrypt(tasks[t].content, iv) : iv \in IVs}
                                 /\ m.content # tasks[t].content

\* ------------------------------------------------------------ C23
\* The bodies the clients sent for the message with this _id, as the
\* fan-out carried them.
BodiesSent(id) == {chatLog[j].payload.content : j \in {k \in DOMAIN chatLog : chatLog[k].payload._id = id}}

\* C23: decrypt(encrypt(x)) = x for non-empty text x: a non-deleted text
\* message sent with body x has content x in every history that
\* join_private_chat returns afterwards.
C23_RoundTrip ==
    \A e \in Events("private_chat_ready") :
        \A k \in DOMAIN out[e].history :
            LET h == out[e].history[k]
            IN (~h.isDeleted /\ h.type = "text")
               => \A x \in BodiesSent(h._id) : h.content = x

\* ------------------------------------------------------------ C24
\* The stored messages of a conversation.
MessagesIn(convId) == {i \in DOMAIN msgs : msgs[i].conversation_id = convId}

\* Message i was created before message j: its save() was called in an
\* earlier millisecond, or in the same one and it was stored first.
CreatedBefore(i, j) ==
    \/ msgs[i].createdAt < msgs[j].createdAt
    \/ msgs[i].createdAt = msgs[j].createdAt /\ i < j

\* C24: the history of join_private_chat holds exactly the min(50, n) most
\* recently created messages of the conversation, n being the number of
\* its messages, oldest first.
C24_HistoryNewestFifty ==
    \A e \in Events("private_chat_ready") :
        LET H == out[e].history
            own == MessagesIn(out[e].roomId[1])
            at(k) == MsgIndex(H[k]._id)
            shown == {at(k) : k \in DOMAIN H}
        IN /\ Len(H) = IF Cardinality(own) < HistoryLimit
                        THEN Cardinality(own) ELSE HistoryLimit
           /\ shown \subseteq own
           /\ \A j, k \in DOMAIN H : j < k => CreatedBefore(at(j), at(k))
           /\ \A i \in own \ shown : \A k \in DOMAIN H : CreatedBefore(i, at(k))

\* The same by the stored createdAt alone, two messages of one millisecond
\* taken as created together.
HistoryNewestByStamp ==
    \A e \in Events("private_chat_ready") :
        LET H == out[e].history
            own == MessagesIn(out[e].roomId[1])
            at(k) == MsgIndex(H[k]._id)
            shown == {at(k) : k \in DOMAIN H}
        IN /\ Len(H) = IF Cardinality(own) < HistoryLimit
                        THEN Cardinality(own) ELSE HistoryLimit
           /\ shown \subseteq own
           /\ Cardinality(shown) = Len(H)
           /\ \A j, k \in DOMAIN H :
                j < k => msgs[at(j)].createdAt <= msgs[at(k)].createdAt
           /\ \A i \in own \ shown : \A k \in DOMAIN H :
                msgs[i].createdAt <= msgs[at(k)].createdAt

\* ------------------------------------------------------------ C25
\* C25: of two chat_message events of one session, the message of the
\* first is persisted before the message of the second, and fanned out
\* before it, whatever roomId the two carry.
C25_SessionOrder ==
    /\ \A i \in DOMAIN msgs :
         decrypt(msgs[i].content, {}) = SecondBody
         => \E j \in 1..(i - 1) : decrypt(msgs[j].content, {}) = FirstBody
    /\ \A k \in DOMAIN chatLog :
         chatLog[k].payload.content = SecondBody
         => \E j \in 1..(k - 1) : chatLog[j].payload.content = FirstBody

\* ------------------------------------------------------------ C26
\* The conversations of collection cs that join_private_chat between the
\* two ids may return.
JoinMayReturn(cs, ids) ==
    {n \in DOMAIN cs : \A p \in RangeOf(ids) : p \in RangeOf(cs[n].participants)}

\* C26: a chat_message with a composite token is resolved to the one
\* Conversation that join_private_chat between the two ids returns, for
\* either order of the ids; none is created when one exists; the one that
\* is created is the one a join returns; and the emitted chat_message
\* carries the id of the conversation the message is stored in.
C26_TokenResolvesToJoinConversation ==
    [][\A t \in DOMAIN tasks :
         LET parts == tasks[t].room
         IN /\ (/\ Running(t, "chat", "find") /\ ChatFind(t)
                 /\ CastsToObjectId(parts) /\ JoinMayReturn(convs, parts) # {})
                => /\ convs' = convs
                   /\ JoinMayReturn(convs, parts) = JoinMayReturn(convs, <<parts[2], parts[1]>>)
                   /\ \E n \in DOMAIN convs :
                        /\ JoinMayReturn(convs, parts) = {n}
                        /\ tasks'[t].room = <<ConvIdOf[n]>>
            /\ (Running(t, "chat", "create") /\ ChatCreate(t))
                => JoinMayReturn(convs', parts) = {Len(convs')}
            /\ (Running(t, "chat", "update") /\ ChatUpdate(t))
                => \A e \in DOMAIN out' :
                     /\ IsValidObjectId(out'[e].payload.roomId)
                     /\ out'[e].payload.roomId = <<msgs[MsgOf(t)].conversation_id>>]_vars

\* ------------------------------------------------------------ C27
\* The handler in flight belongs to an event whose id resolves to nothing.
Stray(t) ==
    CASE tasks[t].kind \in {"delivered", "delete"} -> MsgIndex(tasks[t].msg) = 0
      [] tasks[t].kind = "chat" -> /\ IsValidObjectId(tasks[t].room)
                                   /\ ConvIndex(tasks[t].room[1]) = 0
      [] OTHER -> FALSE

\* C27: while the only events are message:delivered and message:delete
\* with an unknown message id, conversation:read with a malformed
\* conversation id and chat_message with a well-formed id of no
\* Conversation, no step changes the stored users, conversations or
\* messages, none emits an event, and the sessions stay as they are.
C27_StrayEventsIgnored ==
    [][(\A t \in DOMAIN tasks : Stray(t))
       => /\ msgs' = msgs /\ convs' = convs /\ online' = online
          /\ out' = <<>> /\ chatLog' = chatLog /\ pushLog' = pushLog
          /\ socks' = socks]_vars

\* ------------------------------------------------------------ C28
\* user_status_change(isOnline = true) about the user of socket s is being
\* emitted to the channel of every other user it shares a conversation with.
OnlineAnnounced(s) ==
    \A p \in Users :
        (p # socks[s].user /\ SharesConversation(socks[s].user, p))
        => \E i \in Events("user_status_change") :
             /\ out[i].to = <<p>> /\ out[i].userId = socks[s].user /\ out[i].isOnline

\* The stored online flag of the user of socket s is true.
FlagOn(s) == socks[s].user \in Users /\ online[socks[s].user]

\* C28: an admitted session is in the channel of its user for as long as it
\* is connected, and its events are handled only once its listeners are
\* registered, which is after the join; the online flag of its user
\* becomes true at some time after admission; and the online event is
\* emitted to the channel of every contact.
C28_AdmissionEffects ==
    /\ [](\A s \in Sockets :
            (Admitted(s) /\ socks[s].connected) => <<socks[s].user>> \in socks[s].rooms)
    /\ [](\A t \in DOMAIN tasks : socks[tasks[t].sock].phase = "ready")
    /\ \A s \in Sockets : socks[s].pendingOn ~> FlagOn(s)
    /\ \A s \in Sockets :
         (socks[s].phase = "awaiting") ~> (socks[s].phase = "ready" /\ OnlineAnnounced(s))

\* A session has just been announced to two contacts, one of them offline,
\* while its online write is still to be executed.
C28_Witness ==
    \E s \in Sockets :
        /\ socks[s].phase = "ready" /\ OnlineAnnounced(s)
        /\ Cardinality(Events("user_status_change")) = 2
        /\ \E i \in Events("user_status_change") : ~online[out[i].to[1]]
        /\ socks[s].pendingOn

\* ------------------------------------------------------------ C29
\* C29: a connection that presents a valid token is sent login_success by
\* the time its connection handler has run, and a connection that
\* presents none, or one that fails verification, is rejected.
C29_LoginSuccessOrRejected ==
    [][\A s \in Sockets :
         /\ (socks[s].phase = "awaiting" /\ socks'[s].phase = "ready")
            => \E i \in DOMAIN out' : out'[i].ev = "login_success"
         /\ (socks[s].phase = "new" /\ socks'[s].phase # "new")
            => IF socks'[s].token.present /\ socks'[s].token.valid
               THEN socks'[s].phase = "awaiting"
               ELSE socks'[s].phase = "rejected"]_vars

\* ------------------------------------------------------------ C30
\* The user may advance the status of the i-th message: a participant of
\* its conversation who is not its sender.
MayAdvance(u, i) ==
    /\ u # msgs[i].sender_id
    /\ ConvIndex(msgs[i].conversation_id) # 0
    /\ u \in RangeOf(convs[ConvIndex(msgs[i].conversation_id)].participants)

\* C30: every step that changes the status of a message is the write of a
\* message:delivered or conversation:read handler of a user who is a
\* participant of the message's conversation and not its sender.
C30_StatusChangeAuthorized ==
    [][\A i \in DOMAIN msgs :
         msgs'[i].status # msgs[i].status
         => \E t \in DOMAIN tasks :
              /\ IF tasks[t].kind = "delivered"
                 THEN Running(t, "delivered", "save") /\ DeliveredSave(t) /\ MsgOf(t) = i
                 ELSE Running(t, "read", "update") /\ ReadUpdate(t)
              /\ MayAdvance(UserOf(t), i)]_vars

\* ------------------------------------------------------------ C31
\* No conversation's preview is the plaintext body of a stored text message
\* or of a text message being sent.
NoPlainPreview ==
    \A n \in DOMAIN convs :
        /\ \A i \in DOMAIN msgs :
             msgs[i].type = "text" => convs[n].last_message # decrypt(msgs[i].content, {})
        /\ \A t \in DOMAIN tasks :
             (tasks[t].kind = "chat" /\ tasks[t].type = "text")
             => convs[n].last_message # tasks[t].content

\* C31: the preview update of a send writes the fixed image label for an
\* image and the stored codec output for a text, and sets the timestamp
\* to a reading no earlier than the one it replaces, the latest of all
\* conversations; the preview never holds
\* the plaintext body of a text message.
C31_PreviewByType ==
    [][/\ \A t \in DOMAIN tasks :
            (/\ Running(t, "chat", "update") /\ ChatUpdate(t)
             /\ ConvIndex(tasks[t].room[1]) # 0)
            => LET n == ConvIndex(tasks[t].room[1])
                   m == msgs[MsgOf(t)]
               IN /\ m.type = "image" => convs'[n].last_message = ImageLabel
                  /\ m.type = "text" => /\ convs'[n].last_message = m.content
                                        /\ convs'[n].last_message # tasks[t].content
                  /\ convs'[n].updatedAt >= convs[n].updatedAt
                  /\ \A k \in DOMAIN convs : convs'[n].updatedAt >= convs'[k].updatedAt
       /\ NoPlainPreview']_vars

\* ------------------------------------------------------------ C32
\* The conversations that hold no message.
EmptyConvs == {n \in DOMAIN convs : MessagesIn(ConvIdOf[n]) = {}}

\* C32: in every reachable state every conversation that has no message
\* carries the one "start of conversation" sentinel as its preview, whether
\* join_private_chat or a chat_message by composite token created it.
C32_SingleSentinel ==
    \A n \in EmptyConvs : convs[n].last_message = StartJoin


\* ------------------------------------------------------------ C33
\* C33: no step changes the conversation id, the sender id, the content or
\* the type of a stored message or removes it, so that only its status and
\* its soft-delete flag change, and no step removes a conversation or
\* changes its participants.
C33_MessagesKeepIdentity ==
    [][/\ Len(msgs') >= Len(msgs)
       /\ \A i \in DOMAIN msgs :
            /\ msgs'[i].conversation_id = msgs[i].conversation_id
            /\ msgs'[i].sender_id = msgs[i].sender_id
            /\ msgs'[i].content = msgs[i].content
            /\ msgs'[i].type = msgs[i].type
       /\ Len(convs') >= Len(convs)
       /\ \A n \in DOMAIN convs : convs'[n].participants = convs[n].participants]_vars

\* A message sent by conversation id was read and then deleted, and a later
\* message followed it.
C33_Witness ==
    /\ Len(msgs) = 2
    /\ msgs[1].isDeleted /\ msgs[1].status = "read"
    /\ msgs[1].content = encrypt(Plain("hello"), "iv1")
    /\ Len(convs) = 2


\* ------------------------------------------------------------ C34
\* The stored messages that a join by user "by" toward user "other" has to
\* return: those of a conversation of exactly these two users that are among
\* the newest HistoryLimit of that conversation, however the sort orders
\* the messages stamped alike.
OwedHistory(by, other) ==
    {i \in DOMAIN msgs :
       LET n == ConvIndex(msgs[i].conversation_id)
       IN /\ n # 0
          /\ by # other
          /\ RangeOf(convs[n].participants) = {by, other}
          /\ \A idx \in HistoryIndexes(msgs[i].conversation_id) : i \in RangeOf(idx)}

\* C34: every private_chat_ready a participant receives for a join toward
\* the other participant lists every persisted message of their
\* conversation that is among its 50 most recent, delivered live or not.
C34_PersistedIsInHistory ==
    \A k \in DOMAIN out :
        out[k].ev = "private_chat_ready"
        => \A i \in OwedHistory(out[k].by, out[k].other) :
               \E h \in DOMAIN out[k].history : out[k].history[h]._id = MsgIdOf[i]


\* ------------------------------------------------------------ C35
\* C35: a chat_message is emitted only for a message that was persisted
\* before, with status sent, and in the step that writes the preview of its
\* conversation; a push for a recipient is called only after the
\* chat_message of that message went to that recipient's channel; a send
\* whose save failed emits nothing.
C35_PipelineOrdered ==
    [][/\ \A k \in DOMAIN out' :
            out'[k].ev = "chat_message"
            => LET i == MsgIndex(out'[k].payload._id)
               IN /\ i \in DOMAIN msgs
                  /\ msgs[i].status = "sent"
                  /\ msgs[i].type = out'[k].payload.type
                  /\ msgs[i].sender_id = out'[k].payload.sender_id
                  /\ LET n == ConvIndex(msgs[i].conversation_id)
                     IN /\ n # 0
                        /\ convs'[n].last_message =
                             IF msgs[i].type = "image" THEN ImageLabel ELSE msgs[i].content
       /\ \A p \in DOMAIN pushLog' :
            p \notin DOMAIN pushLog
            => \E k \in DOMAIN chatLog :
                 /\ chatLog[k].to = <<pushLog'[p].to>>
                 /\ chatLog[k].payload._id = pushLog'[p].msg
       /\ (\E t \in DOMAIN tasks :
             /\ Running(t, "chat", "save") /\ ChatSave(t) /\ msgs' = msgs)
          => out' = <<>> /\ Len(tasks') < Len(tasks)]_vars

\* A message was persisted, fanned out and pushed to its offline recipient.
C35_Witness ==
    \E p \in DOMAIN pushLog, k \in DOMAIN chatLog :
        /\ chatLog[k].to = <<pushLog[p].to>>
        /\ chatLog[k].payload._id = pushLog[p].msg
        /\ MsgIndex(pushLog[p].msg) # 0


\* ------------------------------------------------------------ C36
\* C36: every message:status_update and message:deleted goes to the channel
\* of the conversation that holds the message it names, and every
\* conversation:read_ack to the channel of a stored conversation, whatever
\* roomId the request carried.
C36_ReceiptsToOwningChannel ==
    \A k \in DOMAIN out :
        /\ out[k].ev \in {"message:status_update", "message:deleted"}
           => out[k].to = <<msgs[MsgIndex(out[k].messageId)].conversation_id>>
        /\ out[k].ev = "conversation:read_ack"
           => ConvIndex(out[k].to[1]) # 0


\* ------------------------------------------------------------ C37
\* C37: the sender of every stored message whose conversation is stored is
\* one of that conversation's participants.
C37_SenderIsParticipant ==
    \A i \in DOMAIN msgs :
        LET n == ConvIndex(msgs[i].conversation_id)
        IN n # 0 => msgs[i].sender_id \in RangeOf(convs[n].participants)


\* ------------------------------------------------------------ C38
\* C38: no step clears the soft-delete flag of a message, the save of a
\* message:delivered handler that loaded the message before the delete
\* included.
C38_DeleteIsFinal ==
    [][\A i \in DOMAIN msgs : msgs[i].isDeleted => msgs'[i].isDeleted]_vars

\* A message was deleted in the last step while a message:delivered handler
\* that had loaded it before is about to save it.
C38_Witness ==
    \E k \in DOMAIN out, t \in DOMAIN tasks :
        /\ out[k].ev = "message:deleted"
        /\ Running(t, "delivered", "save")
        /\ tasks[t].msg = out[k].messageId
        /\ msgs[MsgOf(t)].isDeleted


\* ------------------------------------------------------------ C39
\* C39: no event that a client sends on an accepted connection is lost:
\* none reaches the server while no listener is registered for it.
C39_NoEventLost ==
    \A k \in DOMAIN out :
        out[k].ev = "no_listener" => ~Admitted(out[k].sock)


\* ------------------------------------------------------------ C40
\* C40: every channel a session is a member of is the personal channel of
\* its own user or the channel of a stored conversation that lists its
\* user as a participant.
C40_OwnChannelsOnly ==
    \A s \in Sockets : \A r \in socks[s].rooms :
        \/ r = <<socks[s].user>>
        \/ /\ ConvIndex(r[1]) # 0
           /\ socks[s].user \in RangeOf(convs[ConvIndex(r[1])].participants)

\* A session has joined the channels of two conversations besides its own,
\* and a socket that closed while its join was in flight has entered the
\* channel of the conversation since.
C40_Witness ==
    /\ \E s \in Sockets : socks[s].connected /\ Cardinality(socks[s].rooms) = 3
    /\ \E s \in Sockets : ~socks[s].connected /\ socks[s].rooms # {}

====
